---- MODULE Spec2Model ----
(***************************************************************************)
(* Model of the real-time core of miuchi.chat (src/src/ws.rs): the upgrade *)
(* handler, the registry (room designator -> identity -> Client), the      *)
(* per-connection outbound broadcast channel with its writer task, and the *)
(* dispatcher for JoinRoom / SendMessage / LeaveRoom, with persistence and *)
(* the search index as external collaborators that may fail.               *)
(***************************************************************************)
EXTENDS Naturals, Sequences, FiniteSets, TLC

(***************************************************************************)
(* Program constants and model bounds                                      *)
(***************************************************************************)
MAX_CONNECTIONS_PER_USER == 5

\* period of the heartbeat's ticks, in seconds
HEARTBEAT_INTERVAL == 30

\* inbound silence after which the heartbeat gives up, in seconds
CLIENT_TIMEOUT == 60

\* largest inbound text frame, in bytes (64 * 1024)
MAX_MESSAGE_SIZE == 65536

\* permits of a connection's rate limiter
RATE_LIMIT_MESSAGES == 10

\* the replenisher's period in seconds, also the retry_after of RateLimited
RATE_LIMIT_WINDOW == 1

\* capacity of a connection's outbound channel, scaled down from
\* broadcast::channel(100)
QueueCap == 2

\* number of rows the persistence store accepts before the model stops sending
MaxMsgs == 2

\* number of inbound frames the peers send in one run of the core specification
MaxFrames == 3

\* the clock runs from 0 to MaxTime seconds in steps of at most TimeStep
MaxTime == 100

TimeStep == 5

(***************************************************************************)
(* Identities, connections, rooms                                          *)
(***************************************************************************)
Users == {"alice", "bob"}

\* connection 0 and the last connection authenticate as bob, every other
\* connection as alice
AllConns == 0 .. (MAX_CONNECTIONS_PER_USER + 2)

ConnUser(c) == IF c \in {0, MAX_CONNECTIONS_PER_USER + 2} THEN "bob" ELSE "alice"

\* rows of the rooms table; members is the room_members relation
RoomsDb ==
  { [id |-> "id-general", name |-> "general", is_public |-> TRUE,  members |-> {}],
    [id |-> "id-lobby",   name |-> "lobby",   is_public |-> TRUE,  members |-> {}],
    [id |-> "id-secret",  name |-> "secret",  is_public |-> FALSE, members |-> {"bob"}] }

NoRoom == [id |-> "-", name |-> "-", is_public |-> FALSE, members |-> {}]

\* strings that parse as a 128-bit id
UuidStrings == {r.id : r \in RoomsDb} \cup {"id-unknown"}

\* byte length of a room designator as far as the validation can tell
RoomLen(room) ==
  CASE room = ""     -> 0
    [] room = "long" -> 101
    [] OTHER         -> 7

find_by_id(id) ==
  IF \E r \in RoomsDb : r.id = id
    THEN CHOOSE r \in RoomsDb : r.id = id
    ELSE NoRoom

find_by_name(name) ==
  IF \E r \in RoomsDb : r.name = name
    THEN CHOOSE r \in RoomsDb : r.name = name
    ELSE NoRoom

\* room lookup of JoinRoom and SendMessage: by id when the string parses as
\* a 128-bit id, else by name
ResolveRoom(room) ==
  IF room \in UuidStrings THEN find_by_id(room) ELSE find_by_name(room)

is_member(room_obj, user) == user \in room_obj.members

\* byte length of a message content
ContentLen(content) ==
  CASE content = ""    -> 0
    [] content = "hi"  -> 2
    [] content = "max" -> 4000
    [] content = "big" -> 4001
    [] OTHER           -> 1

\* message_type of the frame to the kind stored and broadcast
DbMessageType(message_type) ==
  CASE message_type = "image"  -> "image"
    [] message_type = "file"   -> "file"
    [] message_type = "system" -> "system"
    [] OTHER                   -> "text"

(***************************************************************************)
(* Wire frames (WsMessage).  Unused fields hold "-" or 0; code 0 is None.  *)
(***************************************************************************)
MkFrame(type, room, user, id, content, kind, message, code) ==
  [type |-> type, room |-> room, user |-> user, id |-> id, content |-> content,
   kind |-> kind, message |-> message, code |-> code]

NoFrame == MkFrame("-", "-", "-", 0, "-", "-", "-", 0)

RoomJoined(room, user) == MkFrame("room_joined", room, user, 0, "-", "-", "-", 0)

UserJoined(room, user) == MkFrame("user_joined", room, user, 0, "-", "-", "-", 0)

UserLeft(room, user) == MkFrame("user_left", room, user, 0, "-", "-", "-", 0)

MessageFrame(id, room, user, content, kind) ==
  MkFrame("message", room, user, id, content, kind, "-", 0)

ErrorFrame(message, code) == MkFrame("error", "-", "-", 0, "-", "-", message, code)

\* Option<u64> of Ping and Pong: None (the field absent or null), or Some(t)
\* written as t
None == 0

Timestamps == {None, 7}

Pong(timestamp) ==
  [type |-> "pong", room |-> "-", user |-> "-", id |-> 0, content |-> "-",
   kind |-> "-", message |-> "-", code |-> 0, timestamp |-> timestamp]

\* WebRtcOffer, WebRtcAnswer, WebRtcIceCandidate: the variant, the room, the
\* to_user_id string and the payload (offer, answer or candidate)
Signal(variant, room, to_user_id, payload) ==
  [type |-> variant, room |-> room, user |-> "-", id |-> 0, content |-> "-",
   kind |-> "-", message |-> "-", code |-> 0,
   to_user_id |-> to_user_id, payload |-> payload]

\* the Ping the heartbeat sends to the peer
PingFrame(timestamp) ==
  [type |-> "ping", room |-> "-", user |-> "-", id |-> 0, content |-> "-",
   kind |-> "-", message |-> "-", code |-> 0, timestamp |-> timestamp]

RateLimited(retry_after) ==
  [type |-> "rate_limited", room |-> "-", user |-> "-", id |-> 0, content |-> "-",
   kind |-> "-", message |-> "-", code |-> 0, retry_after |-> retry_after]

(***************************************************************************)
(* Registry operations on a value reg: room -> (identity -> connection)    *)
(***************************************************************************)
UserRooms(reg, user) == {r \in DOMAIN reg : user \in DOMAIN reg[r]}

\* mutant: an identity with MAX_CONNECTIONS_PER_USER rooms is still admitted
check_connection_limit_off(reg, user) ==
  Cardinality(UserRooms(reg, user)) <= MAX_CONNECTIONS_PER_USER

check_connection_limit(reg, user) ==
  Cardinality(UserRooms(reg, user)) < MAX_CONNECTIONS_PER_USER

add_client_to_room(reg, room, user, c) ==
  LET old == IF room \in DOMAIN reg THEN reg[room] ELSE << >>
      inner == [u \in DOMAIN old \cup {user} |-> IF u = user THEN c ELSE old[u]]
  IN  [r \in DOMAIN reg \cup {room} |-> IF r = room THEN inner ELSE reg[r]]

\* mutant: the client is removed but an emptied room is left in place
remove_client_keep_room(reg, room, user) ==
  IF room \notin DOMAIN reg
    THEN reg
    ELSE [reg EXCEPT ![room] = [u \in DOMAIN reg[room] \ {user} |-> reg[room][u]]]

remove_client_from_room(reg, room, user) ==
  IF room \notin DOMAIN reg
    THEN reg
    ELSE LET inner == [u \in DOMAIN reg[room] \ {user} |-> reg[room][u]]
         IN  IF DOMAIN inner = {}
               THEN [r \in DOMAIN reg \ {room} |-> reg[r]]
               ELSE [reg EXCEPT ![room] = inner]

\* mutant: the identity is removed but emptied rooms are left in place
cleanup_keep_rooms(reg, user) ==
  [r \in DOMAIN reg |-> [u \in DOMAIN reg[r] \ {user} |-> reg[r][u]]]

cleanup_user_connections(reg, user) ==
  LET reaped == {r \in DOMAIN reg : DOMAIN reg[r] = {user}}
  IN  [r \in DOMAIN reg \ reaped |->
         [u \in DOMAIN reg[r] \ {user} |-> reg[r][u]]]

\* the connections whose Client is in the inner map of a room
RoomClients(reg, room) ==
  IF room \in DOMAIN reg THEN {reg[room][u] : u \in DOMAIN reg[room]} ELSE {}

\* iteration order of an inner map: fixed for a given map
UserOrder == <<"alice", "bob">>

\* mutant: the loop stops after the first client
RecipientsFirst(reg, room, exclude_user) ==
  IF room \notin DOMAIN reg
    THEN << >>
    ELSE LET us == SelectSeq(UserOrder,
                     LAMBDA u : u \in DOMAIN reg[room] /\ u # exclude_user)
         IN  [i \in 1 .. (IF Len(us) > 0 THEN 1 ELSE 0) |-> reg[room][us[i]]]

\* the connections broadcast_to_room sends to, in iteration order
Recipients(reg, room, exclude_user) ==
  IF room \notin DOMAIN reg
    THEN << >>
    ELSE LET us == SelectSeq(UserOrder,
                     LAMBDA u : u \in DOMAIN reg[room] /\ u # exclude_user)
         IN  [i \in 1 .. Len(us) |-> reg[room][us[i]]]

(***************************************************************************)
(* State                                                                   *)
(***************************************************************************)
VARIABLES
  st,        \* connection -> "new" | "live" | "closed" | "refused" | "unauth"
  registry,  \* AppState: room designator -> (identity -> connection of the Client)
  queue,     \* connection -> frames in the outbound channel not yet received
  lagged,    \* connection -> TRUE when the channel overwrote a frame the writer had not received
  wr,        \* connection -> send_task: "none" | "run" | "lag" | "fail" | "abort"
  pc,        \* connection -> position of the inbound loop inside the dispatcher
  cur,       \* connection -> locals of the frame being dispatched
  db,        \* the messages table: sequence of rows, row i has id i
  indexed,   \* ids of the documents added to the search index
  joined,    \* history: connection -> rooms it joined and has not left since
  log,       \* history: message id -> recipients and deliveries of its broadcast
  nframes,   \* number of inbound text frames the peers have sent so far
  permits,   \* connection -> available permits of its rate_limiter
  message_count, \* connection -> message_count of its Client
  ticked,    \* history: connection -> message_count at the last replenisher tick
  reset_pc,  \* the Client whose add_permits(1) the replenisher is about to call
  hb,        \* connection -> heartbeat_task: "none" | "run" | "timeout" | "fail" | "abort"
  online,    \* the last answer of get_online_users_info: entries [user_id, rooms]
  clock,     \* the time in seconds
  last_activity, \* connection -> time of its last inbound frame
  hb_next    \* connection -> time of the next tick of its heartbeat

vars == <<st, registry, queue, lagged, wr, pc, cur, db, indexed, joined, log, nframes,
          permits, message_count, ticked, reset_pc, hb, online, clock, last_activity, hb_next>>

\* the snapshot and the clock
timevars == <<online, clock, last_activity, hb_next>>

\* what only the inbound loop, the replenisher and the heartbeat touch
loopvars == <<nframes, permits, message_count, ticked, reset_pc, hb,
              online, clock, last_activity, hb_next>>

EmptyMap == [x \in {} |-> x]

\* no connection
NoConn == MAX_CONNECTIONS_PER_USER + 3

NoCur == [frame |-> NoFrame, room |-> "-", excl |-> "-", todo |-> << >>]

NoLog == [room |-> "-", rcpts |-> {}, sends |-> << >>, started |-> FALSE, done |-> FALSE]

Init ==
  /\ st = [c \in AllConns |-> "new"]
  /\ registry = EmptyMap
  /\ queue = [c \in AllConns |-> << >>]
  /\ lagged = [c \in AllConns |-> FALSE]
  /\ wr = [c \in AllConns |-> "none"]
  /\ pc = [c \in AllConns |-> "idle"]
  /\ cur = [c \in AllConns |-> NoCur]
  /\ db = << >>
  /\ indexed = {}
  /\ joined = [c \in AllConns |-> {}]
  /\ log = << >>
  /\ nframes = 0
  /\ permits = [c \in AllConns |-> RATE_LIMIT_MESSAGES]
  /\ message_count = [c \in AllConns |-> 0]
  /\ ticked = [c \in AllConns |-> 0]
  /\ reset_pc = NoConn
  /\ hb = [c \in AllConns |-> "none"]
  /\ online = << >>
  /\ clock = 0
  /\ last_activity = [c \in AllConns |-> 0]
  /\ hb_next = [c \in AllConns |-> 0]

(***************************************************************************)
(* The outbound channel of a connection (tokio broadcast, one receiver     *)
(* owned by send_task)                                                     *)
(***************************************************************************)
\* Sender::send fails only when the channel has no receiver left
SendOk(c) == wr[c] = "run"

\* the buffer after a send: at capacity the oldest frame is overwritten
Pushed(q, f) == IF Len(q) < QueueCap THEN Append(q, f) ELSE Append(Tail(q), f)

\* tx.send(f) on the channel of connection c
Enq(c, f) ==
  IF SendOk(c)
    THEN /\ queue' = [queue EXCEPT ![c] = Pushed(@, f)]
         /\ lagged' = [lagged EXCEPT ![c] = @ \/ Len(queue[c]) >= QueueCap]
    ELSE UNCHANGED <<queue, lagged>>

\* the registry lock is free of readers that are inside a broadcast loop
NoReaders == reset_pc = NoConn /\ \A c \in AllConns : pc[c] # "bcast"

(***************************************************************************)
(* websocket_handler / websocket_connection: the upgrade                   *)
(***************************************************************************)
Tokens == {"valid", "invalid", "missing"}

\* mutant: the credential is not looked at
UpgradeNoAuth(c, token) ==
  /\ st[c] = "new"
  /\ IF check_connection_limit(registry, ConnUser(c))
       THEN /\ st' = [st EXCEPT ![c] = "live"]
            /\ wr' = [wr EXCEPT ![c] = "run"]
            /\ hb' = [hb EXCEPT ![c] = "run"]
            /\ last_activity' = [last_activity EXCEPT ![c] = clock]
            /\ hb_next' = [hb_next EXCEPT ![c] = clock]
       ELSE /\ st' = [st EXCEPT ![c] = "refused"]
            /\ UNCHANGED <<wr, hb, last_activity, hb_next>>
  /\ UNCHANGED <<registry, queue, lagged, pc, cur, db, indexed, joined, log>>
  /\ UNCHANGED <<nframes, permits, message_count, ticked, reset_pc, online, clock>>

Upgrade(c, token) ==
  /\ st[c] = "new"
  /\ IF token # "valid"
       THEN /\ st' = [st EXCEPT ![c] = "unauth"]
            /\ UNCHANGED <<wr, hb, last_activity, hb_next>>
       ELSE IF check_connection_limit(registry, ConnUser(c))
              THEN /\ st' = [st EXCEPT ![c] = "live"]
                   /\ wr' = [wr EXCEPT ![c] = "run"]
                   /\ hb' = [hb EXCEPT ![c] = "run"]
                   /\ last_activity' = [last_activity EXCEPT ![c] = clock]
                   /\ hb_next' = [hb_next EXCEPT ![c] = clock]
              ELSE /\ st' = [st EXCEPT ![c] = "refused"]
                   /\ UNCHANGED <<wr, hb, last_activity, hb_next>>
  /\ UNCHANGED <<registry, queue, lagged, pc, cur, db, indexed, joined, log>>
  /\ UNCHANGED <<nframes, permits, message_count, ticked, reset_pc, online, clock>>

\* the inbound loop is between two frames
Ready(c) == st[c] = "live" /\ pc[c] = "idle"

\* rate_limiter.try_acquire() finds a permit
try_acquire(available) == available > 0

\* the inbound loop takes the next text frame of the peer, which is within
\* the size cap, passes the rate limiter and decodes: try_acquire() takes a
\* permit into a temporary of the condition, and the temporary is dropped,
\* hence the permit returned, when the condition has been evaluated
Receive(c) ==
  /\ Ready(c)
  /\ nframes' = nframes + 1
  /\ try_acquire(permits[c])
  /\ permits' = [permits EXCEPT ![c] = (@ - 1) + 1]
  /\ message_count' = [message_count EXCEPT ![c] = @ + 1]
  /\ last_activity' = [last_activity EXCEPT ![c] = clock]
  /\ UNCHANGED <<ticked, reset_pc, hb, online, clock, hb_next>>

\* handle_websocket_message returned Err: the loop replies Error{code 1002}
ReplyError(c, message) ==
  /\ Enq(c, ErrorFrame(message, 1002))
  /\ pc' = [pc EXCEPT ![c] = "idle"]
  /\ cur' = [cur EXCEPT ![c] = NoCur]
  /\ UNCHANGED <<st, registry, wr, db, indexed, joined, log>>

(***************************************************************************)
(* Dispatcher: JoinRoom                                                    *)
(***************************************************************************)
\* the checks shared by JoinRoom and SendMessage on the room: "ok" or the error
RoomCheck(room, user) ==
  LET room_obj == ResolveRoom(room)
  IN  IF room_obj = NoRoom THEN "Room not found"
      ELSE IF ~room_obj.is_public /\ ~is_member(room_obj, user)
        THEN "You are not a member of this private room"
      ELSE "ok"

\* mutant: the membership check of a private room is skipped
JoinCheckNoMembership(room, user) ==
  IF RoomLen(room) = 0 \/ RoomLen(room) > 100
    THEN "Invalid room name"
    ELSE IF ResolveRoom(room) = NoRoom THEN "Room not found" ELSE "ok"

\* mutant: a name that no room has is accepted
JoinCheckNoLookup(room, user) ==
  IF RoomLen(room) = 0 \/ RoomLen(room) > 100
    THEN "Invalid room name"
    ELSE IF ResolveRoom(room) = NoRoom THEN "ok" ELSE RoomCheck(room, user)

JoinCheck(room, user) ==
  IF RoomLen(room) = 0 \/ RoomLen(room) > 100
    THEN "Invalid room name"
    ELSE RoomCheck(room, user)

JoinRoom(c, room) ==
  /\ Receive(c)
  /\ LET user == ConnUser(c)
         res == JoinCheck(room, user)
     IN  IF res # "ok"
           THEN ReplyError(c, res)
           ELSE /\ NoReaders
                /\ registry' = add_client_to_room(registry, room, user, c)
                /\ joined' = [joined EXCEPT ![c] = @ \cup {room}]
                /\ pc' = [pc EXCEPT ![c] = "ack"]
                /\ cur' = [cur EXCEPT ![c] =
                            [frame |-> UserJoined(room, user), room |-> room,
                             excl |-> user, todo |-> << >>]]
                /\ UNCHANGED <<st, queue, lagged, wr, db, indexed, log>>

\* sender.send(RoomJoined)?  -- an Err ends the handler before the broadcast
JoinAck(c) ==
  /\ st[c] = "live" /\ pc[c] = "ack"
  /\ Enq(c, RoomJoined(cur[c].room, ConnUser(c)))
  /\ IF SendOk(c)
       THEN /\ pc' = [pc EXCEPT ![c] = "bcast_wait"]
            /\ UNCHANGED cur
       ELSE /\ pc' = [pc EXCEPT ![c] = "idle"]
            /\ cur' = [cur EXCEPT ![c] = NoCur]
  /\ UNCHANGED <<st, registry, wr, db, indexed, joined, log>>
  /\ UNCHANGED loopvars

(***************************************************************************)
(* Dispatcher: LeaveRoom                                                   *)
(***************************************************************************)
\* mutant: the identity is removed from every room
LeaveRoomAll(c, room) ==
  /\ Receive(c)
  /\ NoReaders
  /\ registry' = cleanup_user_connections(registry, ConnUser(c))
  /\ joined' = [joined EXCEPT ![c] = @ \ {room}]
  /\ pc' = [pc EXCEPT ![c] = "bcast_wait"]
  /\ cur' = [cur EXCEPT ![c] =
              [frame |-> UserLeft(room, ConnUser(c)), room |-> room,
               excl |-> ConnUser(c), todo |-> << >>]]
  /\ UNCHANGED <<st, queue, lagged, wr, db, indexed, log>>

LeaveRoom(c, room) ==
  /\ Receive(c)
  /\ NoReaders
  /\ registry' = remove_client_from_room(registry, room, ConnUser(c))
  /\ joined' = [joined EXCEPT ![c] = @ \ {room}]
  /\ pc' = [pc EXCEPT ![c] = "bcast_wait"]
  /\ cur' = [cur EXCEPT ![c] =
              [frame |-> UserLeft(room, ConnUser(c)), room |-> room,
               excl |-> ConnUser(c), todo |-> << >>]]
  /\ UNCHANGED <<st, queue, lagged, wr, db, indexed, log>>

(***************************************************************************)
(* Dispatcher: SendMessage                                                 *)
(***************************************************************************)
\* mutant: content of exactly 4000 bytes is refused
SendCheckOffByOne(room, content, user) ==
  IF ContentLen(content) = 0 THEN "Message content cannot be empty"
  ELSE IF ContentLen(content) >= 4000 THEN "Message content too long"
  ELSE RoomCheck(room, user)

SendCheck(room, content, user) ==
  IF ContentLen(content) = 0 THEN "Message content cannot be empty"
  ELSE IF ContentLen(content) > 4000 THEN "Message content too long"
  ELSE RoomCheck(room, user)

\* validation and room lookup; what follows is the persistence write
SendMessage(c, room, content, message_type) ==
  /\ Receive(c)
  /\ Len(db) + Cardinality({d \in AllConns : pc[d] = "persist"}) < MaxMsgs
  /\ LET user == ConnUser(c)
         res == SendCheck(room, content, user)
     IN  IF res # "ok"
           THEN ReplyError(c, res)
           ELSE /\ pc' = [pc EXCEPT ![c] = "persist"]
                /\ cur' = [cur EXCEPT ![c] =
                            [frame |-> MessageFrame(0, room, user, content,
                                                    DbMessageType(message_type)),
                             room |-> room, excl |-> "-", todo |-> << >>]]
                /\ UNCHANGED <<st, registry, queue, lagged, wr, db, indexed, joined, log>>

\* mutant: the kind is not bound to the insert, the column default is stored
MessageCreateDefaultKind(rows, room_id, user_id, content, message_type) ==
  [id |-> Len(rows) + 1, room_id |-> room_id, user_id |-> user_id,
   content |-> content, message_type |-> "text"]

\* the row Message::create inserts and returns
MessageCreate(rows, room_id, user_id, content, message_type) ==
  [id |-> Len(rows) + 1, room_id |-> room_id, user_id |-> user_id,
   content |-> content, message_type |-> message_type]

PersistOk(c) ==
  /\ st[c] = "live" /\ pc[c] = "persist"
  /\ LET f == cur[c].frame
         message == MessageCreate(db, ResolveRoom(f.room).id, ConnUser(c),
                                  f.content, f.kind)
     IN  /\ db' = Append(db, message)
         /\ log' = Append(log, [NoLog EXCEPT !.room = f.room])
         /\ cur' = [cur EXCEPT ![c].frame =
                      MessageFrame(message.id, f.room, ConnUser(c), f.content, f.kind)]
         /\ pc' = [pc EXCEPT ![c] = "index"]
  /\ UNCHANGED <<st, registry, queue, lagged, wr, indexed, joined>>
  /\ UNCHANGED loopvars

\* mutant: the error of the persistence write is swallowed, no reply
PersistFailSilent(c) ==
  /\ st[c] = "live" /\ pc[c] = "persist"
  /\ pc' = [pc EXCEPT ![c] = "idle"]
  /\ cur' = [cur EXCEPT ![c] = NoCur]
  /\ UNCHANGED <<st, registry, queue, lagged, wr, db, indexed, joined, log>>
  /\ UNCHANGED loopvars

\* Message::create(...).await? returned Err
PersistFail(c) ==
  /\ st[c] = "live" /\ pc[c] = "persist"
  /\ ReplyError(c, "persistence error")
  /\ UNCHANGED loopvars

\* index.add_documents succeeded
IndexOk(c) ==
  /\ st[c] = "live" /\ pc[c] = "index"
  /\ indexed' = indexed \cup {cur[c].frame.id}
  /\ pc' = [pc EXCEPT ![c] = "bcast_wait"]
  /\ UNCHANGED <<st, registry, queue, lagged, wr, cur, db, joined, log>>
  /\ UNCHANGED loopvars

\* mutant: the error of the index call is propagated with "?"
IndexFailAbort(c) ==
  /\ st[c] = "live" /\ pc[c] = "index"
  /\ ReplyError(c, "index error")
  /\ UNCHANGED loopvars

\* index.add_documents failed: logged, the handler goes on
IndexFail(c) ==
  /\ st[c] = "live" /\ pc[c] = "index"
  /\ pc' = [pc EXCEPT ![c] = "bcast_wait"]
  /\ UNCHANGED <<st, registry, queue, lagged, wr, cur, db, indexed, joined, log>>
  /\ UNCHANGED loopvars

(***************************************************************************)
(* broadcast_to_room: the read lock is taken, the room's clients are sent  *)
(* the frame one after the other, the lock is released                     *)
(***************************************************************************)
\* one client.sender.send of the loop, to connection to; rest is what remains
Deliver(c, to, rest, first) ==
  LET f == cur[c].frame
  IN  /\ Enq(to, f)
      /\ IF f.type = "message"
           THEN log' = [log EXCEPT ![f.id] =
                  [@ EXCEPT !.sends = Append(@, <<to, SendOk(to)>>),
                            !.rcpts = IF first THEN RoomClients(registry, f.room) ELSE @,
                            !.started = TRUE,
                            !.done = (rest = << >>)]]
           ELSE UNCHANGED log
      /\ IF rest = << >>
           THEN /\ pc' = [pc EXCEPT ![c] = "idle"]
                /\ cur' = [cur EXCEPT ![c] = NoCur]
           ELSE /\ pc' = [pc EXCEPT ![c] = "bcast"]
                /\ cur' = [cur EXCEPT ![c].todo = rest]

\* lock acquisition and the first send (or the release when nobody is there)
BroadcastBegin(c) ==
  /\ st[c] = "live" /\ pc[c] = "bcast_wait"
  /\ LET rs == Recipients(registry, cur[c].room, cur[c].excl)
     IN  IF rs = << >>
           THEN /\ pc' = [pc EXCEPT ![c] = "idle"]
                /\ cur' = [cur EXCEPT ![c] = NoCur]
                /\ IF cur[c].frame.type = "message"
                     THEN log' = [log EXCEPT ![cur[c].frame.id] =
                                    [@ EXCEPT !.started = TRUE, !.done = TRUE]]
                     ELSE UNCHANGED log
                /\ UNCHANGED <<queue, lagged>>
           ELSE Deliver(c, Head(rs), Tail(rs), TRUE)
  /\ UNCHANGED <<st, registry, wr, db, indexed, joined>>
  /\ UNCHANGED loopvars

\* mutant: the send waits, under the lock, for room in the recipient's queue
BroadcastNextBlocking(c) ==
  /\ st[c] = "live" /\ pc[c] = "bcast"
  /\ wr[Head(cur[c].todo)] = "run" /\ Len(queue[Head(cur[c].todo)]) < QueueCap
  /\ Deliver(c, Head(cur[c].todo), Tail(cur[c].todo), FALSE)
  /\ UNCHANGED <<st, registry, wr, db, indexed, joined>>
  /\ UNCHANGED loopvars

\* a later send of the loop; the release after the last one
BroadcastNext(c) ==
  /\ st[c] = "live" /\ pc[c] = "bcast"
  /\ Deliver(c, Head(cur[c].todo), Tail(cur[c].todo), FALSE)
  /\ UNCHANGED <<st, registry, wr, db, indexed, joined>>
  /\ UNCHANGED loopvars

(***************************************************************************)
(* send_task: the outbound writer of a connection                          *)
(***************************************************************************)
\* mutant: the writer takes the frame enqueued last
WriterWriteNewest(c) ==
  /\ wr[c] = "run" /\ ~lagged[c] /\ queue[c] # << >>
  /\ queue' = [queue EXCEPT ![c] = SubSeq(@, 1, Len(@) - 1)]
  /\ UNCHANGED <<st, registry, lagged, wr, pc, cur, db, indexed, joined, log>>
  /\ UNCHANGED loopvars

\* rx.recv() returns a frame and the socket write succeeds
WriterWrite(c) ==
  /\ wr[c] = "run" /\ ~lagged[c] /\ queue[c] # << >>
  /\ queue' = [queue EXCEPT ![c] = Tail(@)]
  /\ UNCHANGED <<st, registry, lagged, wr, pc, cur, db, indexed, joined, log>>
  /\ UNCHANGED loopvars

\* rx.recv() returns a frame and the socket write fails or times out
WriterFail(c) ==
  /\ wr[c] = "run" /\ ~lagged[c] /\ queue[c] # << >>
  /\ queue' = [queue EXCEPT ![c] = << >>]
  /\ wr' = [wr EXCEPT ![c] = "fail"]
  /\ UNCHANGED <<st, registry, lagged, pc, cur, db, indexed, joined, log>>
  /\ UNCHANGED loopvars

\* rx.recv() returns Err(Lagged): "while let Ok(msg)" ends the task
WriterLagged(c) ==
  /\ wr[c] = "run" /\ lagged[c]
  /\ queue' = [queue EXCEPT ![c] = << >>]
  /\ lagged' = [lagged EXCEPT ![c] = FALSE]
  /\ wr' = [wr EXCEPT ![c] = "lag"]
  /\ UNCHANGED <<st, registry, pc, cur, db, indexed, joined, log>>
  /\ UNCHANGED loopvars

(***************************************************************************)
(* The inbound loop ends (close frame, transport error): cleanup, abort    *)
(***************************************************************************)
Disconnect(c) ==
  /\ Ready(c)
  /\ NoReaders
  /\ registry' = cleanup_user_connections(registry, ConnUser(c))
  /\ st' = [st EXCEPT ![c] = "closed"]
  /\ wr' = [wr EXCEPT ![c] = IF @ = "run" THEN "abort" ELSE @]
  /\ queue' = [queue EXCEPT ![c] = << >>]
  /\ lagged' = [lagged EXCEPT ![c] = FALSE]
  /\ hb' = [hb EXCEPT ![c] = IF @ = "run" THEN "abort" ELSE @]
  /\ joined' = [joined EXCEPT ![c] = {}]
  /\ UNCHANGED <<pc, cur, db, indexed, log>>
  /\ UNCHANGED <<nframes, permits, message_count, ticked, reset_pc>>
  /\ UNCHANGED timevars

(***************************************************************************)
(* The inbound loop: frames that do not reach the dispatcher, and Ping     *)
(***************************************************************************)
\* byte lengths of an inbound text frame
FrameLens == {MAX_MESSAGE_SIZE, MAX_MESSAGE_SIZE + 1}

\* mutant: the size check comes after the rate limiter and the counter
UndecodableFrameCounted(c, len) ==
  /\ Ready(c)
  /\ nframes' = nframes + 1
  /\ IF ~try_acquire(permits[c])
       THEN /\ Enq(c, RateLimited(RATE_LIMIT_WINDOW))
            /\ UNCHANGED <<permits, message_count>>
       ELSE /\ permits' = [permits EXCEPT ![c] = (@ - 1) + 1]
            /\ message_count' = [message_count EXCEPT ![c] = @ + 1]
            /\ IF len > MAX_MESSAGE_SIZE
                 THEN Enq(c, ErrorFrame("Message too large", 1009))
                 ELSE Enq(c, ErrorFrame("Invalid JSON format", 1003))
  /\ last_activity' = [last_activity EXCEPT ![c] = clock]
  /\ UNCHANGED <<st, registry, wr, pc, cur, db, indexed, joined, log, ticked, reset_pc, hb>>
  /\ UNCHANGED <<online, clock, hb_next>>

\* a text frame of len bytes that is not valid JSON: the size check, then the
\* rate limiter, then the counter, then the decoder, which fails
UndecodableFrame(c, len) ==
  /\ Ready(c)
  /\ nframes' = nframes + 1
  /\ IF len > MAX_MESSAGE_SIZE
       THEN /\ Enq(c, ErrorFrame("Message too large", 1009))
            /\ UNCHANGED <<permits, message_count>>
       ELSE IF ~try_acquire(permits[c])
         THEN /\ Enq(c, RateLimited(RATE_LIMIT_WINDOW))
              /\ UNCHANGED <<permits, message_count>>
         ELSE /\ permits' = [permits EXCEPT ![c] = (@ - 1) + 1]
              /\ message_count' = [message_count EXCEPT ![c] = @ + 1]
              /\ Enq(c, ErrorFrame("Invalid JSON format", 1003))
  /\ last_activity' = [last_activity EXCEPT ![c] = clock]
  /\ UNCHANGED <<st, registry, wr, pc, cur, db, indexed, joined, log, ticked, reset_pc, hb>>
  /\ UNCHANGED <<online, clock, hb_next>>

\* mutant: a binary frame ends the inbound loop
BinaryFrameClose(c) == Disconnect(c)

\* a binary frame: Error 1003, past the size check, the rate limiter and the
\* counter, which are in the branch of the text frames
BinaryFrame(c) ==
  /\ Ready(c)
  /\ nframes' = nframes + 1
  /\ last_activity' = [last_activity EXCEPT ![c] = clock]
  /\ Enq(c, ErrorFrame("Binary messages not supported", 1003))
  /\ UNCHANGED <<st, registry, wr, pc, cur, db, indexed, joined, log>>
  /\ UNCHANGED <<permits, message_count, ticked, reset_pc, hb, online, clock, hb_next>>

\* mutant: the Pong does not carry the timestamp of the Ping
PingNoEcho(c, timestamp) ==
  /\ Receive(c)
  /\ IF SendOk(c)
       THEN /\ Enq(c, Pong(None))
            /\ UNCHANGED <<st, registry, wr, pc, cur, db, indexed, joined, log>>
       ELSE ReplyError(c, "channel closed")

\* Dispatcher: Ping.  sender.send(Pong)? -- an Err is replied as Error 1002
Ping(c, timestamp) ==
  /\ Receive(c)
  /\ IF SendOk(c)
       THEN /\ Enq(c, Pong(timestamp))
            /\ UNCHANGED <<st, registry, wr, pc, cur, db, indexed, joined, log>>
       ELSE ReplyError(c, "channel closed")

(***************************************************************************)
(* Dispatcher: WebRTC signaling (relay_webrtc_signal)                      *)
(***************************************************************************)
Variants == {"webrtc_offer", "webrtc_answer", "webrtc_ice_candidate"}

NoUser == "-"

\* to_user_id.parse::<Uuid>(): the hyphenated form in either case is
\* accepted; NoUser when the string is not a 128-bit id
ParseUuid(str) ==
  CASE str \in {"id-alice", "ID-ALICE"} -> "alice"
    [] str \in {"id-bob", "ID-BOB"}     -> "bob"
    [] str \in {"id-carol", "ID-CAROL"} -> "carol"
    [] OTHER                            -> NoUser

\* from_user_id.to_string(): the lower-case hyphenated form
UuidToString(user) ==
  CASE user = "alice" -> "id-alice"
    [] user = "bob"   -> "id-bob"
    [] user = "carol" -> "id-carol"
    [] OTHER          -> "-"

\* the rooms whose inner map holds a Client of the identity
Holders(reg, user) == {r \in DOMAIN reg : user \in DOMAIN reg[r]}

\* mutant: a signal that reaches no Client is dropped without a reply
WebRtcSilent(c, variant, room, to_user_id, payload) ==
  /\ Receive(c)
  /\ LET target_user_id == ParseUuid(to_user_id)
          sendable == {r \in Holders(registry, target_user_id) :
                         SendOk(registry[r][target_user_id])}
     IN  IF target_user_id = NoUser
           THEN ReplyError(c, "Invalid target user ID")
           ELSE IF sendable = {}
             THEN UNCHANGED <<st, registry, queue, lagged, wr, pc, cur, db,
                              indexed, joined, log>>
             ELSE \E r \in sendable :
                    /\ Enq(registry[r][target_user_id],
                           Signal(variant, room, UuidToString(ConnUser(c)), payload))
                    /\ UNCHANGED <<st, registry, wr, pc, cur, db, indexed,
                                   joined, log>>

\* the loop over state.values() sends the rewritten frame to the Client of
\* the target in the first room, in the map's iteration order, where the send
\* succeeds; a send fails when the Client's channel has no receiver
WebRtc(c, variant, room, to_user_id, payload) ==
  /\ Receive(c)
  /\ LET target_user_id == ParseUuid(to_user_id)
          sendable == {r \in Holders(registry, target_user_id) :
                         SendOk(registry[r][target_user_id])}
     IN  IF target_user_id = NoUser
           THEN ReplyError(c, "Invalid target user ID")
           ELSE IF sendable = {}
             THEN ReplyError(c, "Target user not found or offline")
             ELSE \E r \in sendable :
                    /\ Enq(registry[r][target_user_id],
                           Signal(variant, room, UuidToString(ConnUser(c)), payload))
                    /\ UNCHANGED <<st, registry, wr, pc, cur, db, indexed,
                                   joined, log>>

(***************************************************************************)
(* get_online_users_info: the online-users snapshot                        *)
(***************************************************************************)
\* the orders in which a map with the keys S can be iterated
Perms(S) ==
  {f \in [1 .. Cardinality(S) -> S] :
     \A i, j \in 1 .. Cardinality(S) : f[i] = f[j] => i = j}

\* the (room, identity) rows of the registry, the rooms in the order rs
RECURSIVE Rows(_, _)
Rows(reg, rs) ==
  IF rs = << >>
    THEN << >>
    ELSE LET us == SelectSeq(UserOrder, LAMBDA u : u \in DOMAIN reg[Head(rs)])
         IN  [i \in 1 .. Len(us) |->
                [room |-> Head(rs), user_id |-> us[i], client |-> reg[Head(rs)][us[i]]]]
             \o Rows(reg, Tail(rs))

\* mutant: every row inserts an entry of its own
RECURSIVE OnlineFoldNoMerge(_, _)
OnlineFoldNoMerge(rows, users_map) ==
  IF rows = << >>
    THEN users_map
    ELSE OnlineFoldNoMerge(Tail(rows),
           Append(users_map, [user_id |-> Head(rows).user_id,
                              rooms |-> <<Head(rows).room>>,
                              client |-> Head(rows).client]))

\* the loop over the rows: users_map.get_mut(user_id) pushes the room on the
\* entry the identity has, or else an entry is inserted with the room and
\* with the name and connected_at of the row's Client
RECURSIVE OnlineFold(_, _)
OnlineFold(rows, users_map) ==
  IF rows = << >>
    THEN users_map
    ELSE LET row == Head(rows)
             has == \E i \in 1 .. Len(users_map) : users_map[i].user_id = row.user_id
         IN  OnlineFold(Tail(rows),
               IF has
                 THEN [i \in 1 .. Len(users_map) |->
                         IF users_map[i].user_id = row.user_id
                           THEN [users_map[i] EXCEPT !.rooms = Append(@, row.room)]
                           ELSE users_map[i]]
                 ELSE Append(users_map, [user_id |-> row.user_id,
                                         rooms |-> <<row.room>>,
                                         client |-> row.client]))

\* the answers the function can give for a registry: the rooms are iterated
\* in any order, and so are the entries of users_map when it is collected
get_online_users_info(reg) ==
  UNION { LET m == OnlineFold(Rows(reg, rs), << >>)
          IN  {[i \in 1 .. Len(m) |-> m[p[i]]] : p \in Perms(1 .. Len(m))}
          : rs \in Perms(DOMAIN reg) }

\* GET online users: the handler takes the snapshot under the read lock
get_online_users ==
  /\ online' \in get_online_users_info(registry)
  /\ UNCHANGED <<st, registry, queue, lagged, wr, pc, cur, db, indexed, joined, log>>
  /\ UNCHANGED <<nframes, permits, message_count, ticked, reset_pc, hb, clock,
                 last_activity, hb_next>>

(***************************************************************************)
(* start_rate_limit_reset_task: the replenisher                            *)
(***************************************************************************)
\* the connections whose Client is in some room of the registry
RegistryConns(reg) == UNION {RoomClients(reg, room) : room \in DOMAIN reg}

\* one tick: every Client of the registry is topped up to the full pool
Tick ==
  /\ permits' = [c \in AllConns |->
                   IF c \in RegistryConns(registry) /\ permits[c] < RATE_LIMIT_MESSAGES
                     THEN RATE_LIMIT_MESSAGES
                     ELSE permits[c]]
  /\ ticked' = message_count
  /\ reset_pc' = reset_pc
  /\ UNCHANGED <<st, registry, queue, lagged, wr, pc, cur, db, indexed, joined, log,
                 nframes, message_count, hb>>
  /\ UNCHANGED timevars

\* the same tick and the same frame in the steps the threads of the runtime
\* can interleave.  The inbound loop: try_acquire() takes a permit, or the
\* frame is answered with RateLimited
PermitAcquire(c) ==
  /\ Ready(c)
  /\ nframes' = nframes + 1
  /\ last_activity' = [last_activity EXCEPT ![c] = clock]
  /\ IF try_acquire(permits[c])
       THEN /\ permits' = [permits EXCEPT ![c] = @ - 1]
            /\ pc' = [pc EXCEPT ![c] = "permit"]
            /\ UNCHANGED <<queue, lagged>>
       ELSE /\ Enq(c, RateLimited(RATE_LIMIT_WINDOW))
            /\ UNCHANGED <<permits, pc>>
  /\ UNCHANGED <<st, registry, wr, cur, db, indexed, joined, log>>
  /\ UNCHANGED <<message_count, ticked, reset_pc, hb, online, clock, hb_next>>

\* the permit, a temporary of the condition, is dropped; the frame, a Ping
\* without timestamp, is counted, decoded and answered
PermitDrop(c) ==
  /\ st[c] = "live" /\ pc[c] = "permit"
  /\ permits' = [permits EXCEPT ![c] = @ + 1]
  /\ message_count' = [message_count EXCEPT ![c] = @ + 1]
  /\ Enq(c, Pong(None))
  /\ pc' = [pc EXCEPT ![c] = "idle"]
  /\ UNCHANGED <<st, registry, wr, cur, db, indexed, joined, log>>
  /\ UNCHANGED <<nframes, ticked, reset_pc, hb>>
  /\ UNCHANGED timevars

\* the replenisher, under the read lock, finds available_permits() of a
\* Client of the registry below RATE_LIMIT_MESSAGES
ResetRead(c) ==
  /\ reset_pc = NoConn
  /\ c \in RegistryConns(registry)
  /\ permits[c] < RATE_LIMIT_MESSAGES
  /\ reset_pc' = c
  /\ UNCHANGED <<st, registry, queue, lagged, wr, pc, cur, db, indexed, joined, log>>
  /\ UNCHANGED <<nframes, permits, message_count, ticked, hb>>
  /\ UNCHANGED timevars

\* ... and calls add_permits(1)
ResetAdd ==
  /\ reset_pc # NoConn
  /\ permits' = [permits EXCEPT ![reset_pc] = @ + 1]
  /\ reset_pc' = NoConn
  /\ UNCHANGED <<st, registry, queue, lagged, wr, pc, cur, db, indexed, joined, log>>
  /\ UNCHANGED <<nframes, message_count, ticked, hb>>
  /\ UNCHANGED timevars

(***************************************************************************)
(* heartbeat_task                                                          *)
(***************************************************************************)
\* a tick with recent inbound activity: a Ping is sent to the peer; the task
\* ends when the channel has no receiver
HeartbeatPing(c, now) ==
  /\ hb[c] = "run"
  /\ Enq(c, PingFrame(now))
  /\ hb' = [hb EXCEPT ![c] = IF SendOk(c) THEN "run" ELSE "fail"]
  /\ UNCHANGED <<st, registry, wr, pc, cur, db, indexed, joined, log,
                 nframes, permits, message_count, ticked, reset_pc>>
  /\ UNCHANGED timevars

\* a tick more than CLIENT_TIMEOUT after the last inbound frame: Error 1001
\* is sent and the task ends
HeartbeatTimeout(c) ==
  /\ hb[c] = "run"
  /\ Enq(c, ErrorFrame("Connection timed out", 1001))
  /\ hb' = [hb EXCEPT ![c] = "timeout"]
  /\ UNCHANGED <<st, registry, wr, pc, cur, db, indexed, joined, log,
                 nframes, permits, message_count, ticked, reset_pc>>
  /\ UNCHANGED timevars

\* the heartbeat with its clock: interval.tick() completes at once after the
\* spawn and then every HEARTBEAT_INTERVAL; at a tick, Error 1001 when the last
\* inbound frame is more than CLIENT_TIMEOUT old, and a Ping otherwise
HeartbeatTick(c) ==
  /\ hb[c] = "run"
  /\ clock = hb_next[c]
  /\ hb_next' = [hb_next EXCEPT ![c] = @ + HEARTBEAT_INTERVAL]
  /\ IF clock - last_activity[c] > CLIENT_TIMEOUT
       THEN /\ Enq(c, ErrorFrame("Connection timed out", 1001))
            /\ hb' = [hb EXCEPT ![c] = "timeout"]
       ELSE /\ Enq(c, PingFrame(7))
            /\ hb' = [hb EXCEPT ![c] = IF SendOk(c) THEN "run" ELSE "fail"]
  /\ UNCHANGED <<st, registry, wr, pc, cur, db, indexed, joined, log,
                 nframes, permits, message_count, ticked, reset_pc>>
  /\ UNCHANGED <<online, clock, last_activity>>

\* the heartbeats that are running
Beating == {c \in AllConns : hb[c] = "run"}

\* time passes, by TimeStep or up to the next tick of a heartbeat: the ticks
\* that are due have been taken, the dispatchers are between two frames and
\* the writers have written what was queued
Advance ==
  /\ clock < MaxTime
  /\ \A c \in Beating : hb_next[c] > clock
  /\ \A c \in AllConns : pc[c] = "idle" /\ queue[c] = << >>
  /\ \E t \in (clock + 1) .. (clock + TimeStep) :
       /\ \/ t = clock + TimeStep
          \/ \E c \in Beating : hb_next[c] = t
       /\ \A c \in Beating : hb_next[c] >= t
       /\ clock' = t
  /\ UNCHANGED <<st, registry, queue, lagged, wr, pc, cur, db, indexed, joined, log>>
  /\ UNCHANGED <<nframes, permits, message_count, ticked, reset_pc, hb, online,
                 last_activity, hb_next>>

(***************************************************************************)
(* A panic inside handle_websocket_message unwinds websocket_connection:   *)
(* nothing after the inbound loop runs, the two task handles are dropped   *)
(***************************************************************************)
DispatcherPanic(c) ==
  /\ st[c] = "live" /\ pc[c] \in {"persist", "index"}
  /\ st' = [st EXCEPT ![c] = "panicked"]
  /\ pc' = [pc EXCEPT ![c] = "idle"]
  /\ cur' = [cur EXCEPT ![c] = NoCur]
  /\ UNCHANGED <<registry, queue, lagged, wr, db, indexed, joined, log>>
  /\ UNCHANGED loopvars

(***************************************************************************)
(* Specifications                                                          *)
(***************************************************************************)
\* the peers have sent fewer than n text frames
Budget(n) == nframes < n

\* one step of the core over connections CS, with the frames' fields drawn
\* from RS (rooms), CTS (contents) and MTS (message types), at most n frames
Step(CS, RS, CTS, MTS, n) ==
  \/ \E c \in CS : Upgrade(c, "valid")
  \/ \E c \in CS, room \in RS : Budget(n) /\ JoinRoom(c, room)
  \/ \E c \in CS : JoinAck(c)
  \/ \E c \in CS, room \in RS : Budget(n) /\ LeaveRoom(c, room)
  \/ \E c \in CS, room \in RS, content \in CTS, mt \in MTS :
       Budget(n) /\ SendMessage(c, room, content, mt)
  \/ \E c \in CS : PersistOk(c)
  \/ \E c \in CS : PersistFail(c)
  \/ \E c \in CS : IndexOk(c)
  \/ \E c \in CS : IndexFail(c)
  \/ \E c \in CS : BroadcastBegin(c)
  \/ \E c \in CS : BroadcastNext(c)
  \/ \E c \in CS : WriterWrite(c)
  \/ \E c \in CS : WriterFail(c)
  \/ \E c \in CS : WriterLagged(c)
  \/ \E c \in CS : Disconnect(c)

\* the core: bob on connection 0, alice on connections 1 and 2
Conns == {0, 1, 2}

Rooms == {"general", "secret"}

Contents == {"hi"}

MessageTypes == {"none", "image"}

Next == Step(Conns, Rooms, Contents, MessageTypes, MaxFrames)

Spec == Init /\ [][Next]_vars

\* message ordering: bob and alice in one room, one frame more than the core
OrderConns == {0, 1}

NextOrder == Step(OrderConns, {"general"}, {"hi"}, {"none"}, MaxFrames + 1)

SpecOrder == Init /\ [][NextOrder]_vars

\* room count of one identity: bob's single connection and every designator
\* of the three rooms
AllRooms == {r.name : r \in RoomsDb} \cup {r.id : r \in RoomsDb}

NextRooms ==
  \/ Upgrade(0, "valid")
  \/ \E room \in AllRooms : Budget(MAX_CONNECTIONS_PER_USER + 1) /\ JoinRoom(0, room)
  \/ JoinAck(0)
  \/ BroadcastBegin(0)
  \/ WriterWrite(0)
  \/ WriterFail(0)
  \/ WriterLagged(0)
  \/ Disconnect(0)

SpecRooms == Init /\ [][NextRooms]_vars

\* connection count of one identity: six upgrades of alice, who may join a room
AliceConns == 1 .. (MAX_CONNECTIONS_PER_USER + 1)

NextConns ==
  \/ \E c \in AliceConns : Upgrade(c, "valid")
  \/ \E c \in AliceConns : Budget(1) /\ JoinRoom(c, "general")
  \/ \E c \in AliceConns : JoinAck(c)
  \/ \E c \in AliceConns : BroadcastBegin(c)
  \/ \E c \in AliceConns : WriterWrite(c)
  \/ \E c \in AliceConns : Disconnect(c)

SpecConns == Init /\ [][NextConns]_vars

\* the rate limiter: bob's connection sends one frame more than the pool
\* holds, with and without a room joined
RateRooms == {"general", "nowhere"}

NextRate ==
  \/ Upgrade(0, "valid")
  \/ \E room \in RateRooms : Budget(RATE_LIMIT_MESSAGES + 1) /\ JoinRoom(0, room)
  \/ JoinAck(0)
  \/ BroadcastBegin(0)
  \/ Budget(RATE_LIMIT_MESSAGES + 1) /\ Ping(0, None)
  \/ Budget(RATE_LIMIT_MESSAGES + 1) /\ UndecodableFrame(0, MAX_MESSAGE_SIZE)
  \/ Tick
  \/ WriterWrite(0)
  \/ WriterLagged(0)
  \/ Disconnect(0)

SpecRate == Init /\ [][NextRate]_vars

\* the inbound loop's checks: bob and alice, rooms that are accepted and
\* rooms that are rejected, frames at and over the size cap, Ping
InputConns == {0, 1}

InputRooms == {"general", "secret", "", "long", "nowhere"}

NextInput ==
  \/ \E c \in InputConns : Upgrade(c, "valid")
  \/ \E c \in InputConns, room \in InputRooms : Budget(MaxFrames) /\ JoinRoom(c, room)
  \/ \E c \in InputConns : JoinAck(c)
  \/ \E c \in InputConns : BroadcastBegin(c)
  \/ \E c \in InputConns, t \in Timestamps : Budget(MaxFrames) /\ Ping(c, t)
  \/ \E c \in InputConns, len \in FrameLens :
       Budget(MaxFrames) /\ UndecodableFrame(c, len)
  \/ \E c \in InputConns : WriterWrite(c)
  \/ \E c \in InputConns : WriterFail(c)
  \/ \E c \in InputConns : WriterLagged(c)
  \/ \E c \in InputConns : Disconnect(c)

SpecInput == Init /\ [][NextInput]_vars

\* teardown: bob and alice in one room, the heartbeat, the writer, and the
\* steps the server takes by itself under weak fairness; the peer's frames
\* and the end of its stream (Disconnect) are up to the peer
TeardownConns == {0, 1}

\* the dispatcher of connection c finishes the frame it is handling
Handler(c) ==
  \/ JoinAck(c)
  \/ PersistOk(c) \/ PersistFail(c)
  \/ IndexOk(c) \/ IndexFail(c)
  \/ BroadcastBegin(c) \/ BroadcastNext(c)

\* send_task of connection c takes its next step
Writer(c) == WriterWrite(c) \/ WriterFail(c) \/ WriterLagged(c)

NextTeardown ==
  \/ \E c \in TeardownConns : Upgrade(c, "valid")
  \/ \E c \in TeardownConns : Budget(MaxFrames - 1) /\ JoinRoom(c, "general")
  \/ \E c \in TeardownConns : JoinAck(c)
  \/ \E c \in TeardownConns : BroadcastBegin(c)
  \/ \E c \in TeardownConns : WriterWrite(c)
  \/ \E c \in TeardownConns : WriterFail(c)
  \/ \E c \in TeardownConns : WriterLagged(c)
  \/ \E c \in TeardownConns : HeartbeatPing(c, 7)
  \/ \E c \in TeardownConns : HeartbeatTimeout(c)
  \/ \E c \in TeardownConns : Disconnect(c)

SpecTeardown ==
  /\ Init /\ [][NextTeardown]_vars
  /\ \A c \in TeardownConns :
       /\ WF_vars(Handler(c))
       /\ WF_vars(Writer(c))
       /\ WF_vars(HeartbeatPing(c, 7))

\* a panic in the dispatcher: bob and alice send messages to one room
NextPanic ==
  \/ \E c \in TeardownConns : Upgrade(c, "valid")
  \/ \E c \in TeardownConns : Budget(MaxFrames) /\ JoinRoom(c, "general")
  \/ \E c \in TeardownConns : JoinAck(c)
  \/ \E c \in TeardownConns :
       Budget(MaxFrames) /\ SendMessage(c, "general", "hi", "none")
  \/ \E c \in TeardownConns : PersistOk(c)
  \/ \E c \in TeardownConns : PersistFail(c)
  \/ \E c \in TeardownConns : IndexOk(c)
  \/ \E c \in TeardownConns : IndexFail(c)
  \/ \E c \in TeardownConns : DispatcherPanic(c)
  \/ \E c \in TeardownConns : BroadcastBegin(c)
  \/ \E c \in TeardownConns : BroadcastNext(c)
  \/ \E c \in TeardownConns : WriterWrite(c)
  \/ \E c \in TeardownConns : WriterFail(c)
  \/ \E c \in TeardownConns : WriterLagged(c)
  \/ \E c \in TeardownConns : Disconnect(c)

SpecPanic == Init /\ [][NextPanic]_vars

\* validation of SendMessage: bob and alice, a public, a private and an
\* unknown room, contents that are empty, of 4000 bytes and of 4001 bytes
SendRooms == {"general", "secret", "nowhere"}

SendContents == {"", "max", "big"}

NextSend == Step(InputConns, SendRooms, SendContents, {"none"}, MaxFrames)

SpecSend == Init /\ [][NextSend]_vars

\* signaling: bob, and alice on two connections, in up to two rooms; signals
\* to a connected identity, to one that is not connected and to a string
\* that is not an id
RelayConns == {0, 1, 2}

RelayRooms == {"general", "lobby"}

RelayTargets == {"id-alice", "ID-BOB", "id-carol", "junk"}

NextRelay ==
  \/ \E c \in RelayConns : Upgrade(c, "valid")
  \/ \E c \in RelayConns, room \in RelayRooms : Budget(MaxFrames) /\ JoinRoom(c, room)
  \/ \E c \in RelayConns : JoinAck(c)
  \/ \E c \in RelayConns : BroadcastBegin(c)
  \/ \E c \in RelayConns, v \in Variants, to \in RelayTargets :
       Budget(MaxFrames) /\ WebRtc(c, v, "general", to, "sdp")
  \/ \E c \in RelayConns : WriterWrite(c)
  \/ \E c \in RelayConns : WriterFail(c)
  \/ \E c \in RelayConns : Disconnect(c)

SpecRelay == Init /\ [][NextRelay]_vars

\* authentication: upgrades of bob and of alice's two connections with a
\* valid, an invalid and a missing credential, next to traffic in one room
AuthConns == {0, 1, 2}

NextAuth ==
  \/ \E c \in AuthConns, token \in Tokens : Upgrade(c, token)
  \/ \E c \in AuthConns : Budget(MaxFrames) /\ JoinRoom(c, "general")
  \/ \E c \in AuthConns : JoinAck(c)
  \/ \E c \in AuthConns : Budget(MaxFrames) /\ Ping(c, None)
  \/ \E c \in AuthConns : BroadcastBegin(c)
  \/ \E c \in AuthConns : WriterWrite(c)
  \/ \E c \in AuthConns : Disconnect(c)

SpecAuth == Init /\ [][NextAuth]_vars

\* the online-users snapshot: bob and alice join and leave the public and
\* the private room, and the snapshot is taken at any moment
OnlineConns == {0, 1}

NextOnline ==
  \/ \E c \in OnlineConns : Upgrade(c, "valid")
  \/ \E c \in OnlineConns, room \in Rooms : Budget(MaxFrames) /\ JoinRoom(c, room)
  \/ \E c \in OnlineConns : JoinAck(c)
  \/ \E c \in OnlineConns, room \in Rooms : Budget(MaxFrames) /\ LeaveRoom(c, room)
  \/ \E c \in OnlineConns : BroadcastBegin(c)
  \/ \E c \in OnlineConns : WriterWrite(c)
  \/ \E c \in OnlineConns : Disconnect(c)
  \/ get_online_users

SpecOnline == Init /\ [][NextOnline]_vars

\* the heartbeat against the clock: bob's connection is opened at any
\* moment, joins the public room at any moment and is silent from then on
NextClock ==
  \/ Upgrade(0, "valid")
  \/ Budget(1) /\ JoinRoom(0, "general")
  \/ JoinAck(0)
  \/ BroadcastBegin(0)
  \/ WriterWrite(0)
  \/ HeartbeatTick(0)
  \/ Advance

SpecClock == Init /\ [][NextClock]_vars

\* admission: bob's first connection joins up to five designators of the
\* three rooms, and his second connection asks for the upgrade at any moment
AdmitConns == {0, MAX_CONNECTIONS_PER_USER + 2}

NextAdmit ==
  \/ \E c \in AdmitConns : Upgrade(c, "valid")
  \/ \E room \in AllRooms : Budget(MAX_CONNECTIONS_PER_USER) /\ JoinRoom(0, room)
  \/ JoinAck(0)
  \/ BroadcastBegin(0)
  \/ \E c \in AdmitConns : WriterWrite(c)
  \/ \E c \in AdmitConns : Disconnect(c)

SpecAdmit == Init /\ [][NextAdmit]_vars

\* the permit pool under the interleavings of the inbound loop and the
\* replenisher: bob and alice in one room, sending Pings
PermitConns == {0, 1}

NextPermit ==
  \/ \E c \in PermitConns : Upgrade(c, "valid")
  \/ \E c \in PermitConns : Budget(MaxFrames + 1) /\ JoinRoom(c, "general")
  \/ \E c \in PermitConns : JoinAck(c)
  \/ \E c \in PermitConns : BroadcastBegin(c)
  \/ \E c \in PermitConns : Budget(MaxFrames + 1) /\ PermitAcquire(c)
  \/ \E c \in PermitConns : PermitDrop(c)
  \/ \E c \in PermitConns : ResetRead(c)
  \/ ResetAdd
  \/ \E c \in PermitConns : WriterWrite(c)
  \/ \E c \in PermitConns : Disconnect(c)

SpecPermit == Init /\ [][NextPermit]_vars

\* frames that are not dispatched: bob and alice in one room send text that
\* does not decode, binary frames and Pings
NextDecode ==
  \/ \E c \in InputConns : Upgrade(c, "valid")
  \/ \E c \in InputConns : Budget(MaxFrames) /\ JoinRoom(c, "general")
  \/ \E c \in InputConns : JoinAck(c)
  \/ \E c \in InputConns : BroadcastBegin(c)
  \/ \E c \in InputConns : Budget(MaxFrames) /\ UndecodableFrame(c, MAX_MESSAGE_SIZE)
  \/ \E c \in InputConns : Budget(MaxFrames) /\ BinaryFrame(c)
  \/ \E c \in InputConns : Budget(MaxFrames) /\ Ping(c, None)
  \/ \E c \in InputConns : WriterWrite(c)
  \/ \E c \in InputConns : WriterFail(c)
  \/ \E c \in InputConns : Disconnect(c)

SpecDecode == Init /\ [][NextDecode]_vars

\* the registry lock: bob and alice join, leave and send to one room while
\* the replenisher makes its passes; the dispatchers and the replenisher go
\* on by themselves (weak fairness), the frames are up to the peers
NextLock ==
  \/ \E c \in TeardownConns : Upgrade(c, "valid")
  \/ \E c \in TeardownConns : Budget(MaxFrames + 1) /\ JoinRoom(c, "general")
  \/ \E c \in TeardownConns : JoinAck(c)
  \/ \E c \in TeardownConns : Budget(MaxFrames + 1) /\ LeaveRoom(c, "general")
  \/ \E c \in TeardownConns :
       Budget(MaxFrames + 1) /\ SendMessage(c, "general", "hi", "none")
  \/ \E c \in TeardownConns : PersistOk(c)
  \/ \E c \in TeardownConns : IndexOk(c)
  \/ \E c \in TeardownConns : BroadcastBegin(c)
  \/ \E c \in TeardownConns : BroadcastNext(c)
  \/ \E c \in TeardownConns : Budget(MaxFrames + 1) /\ PermitAcquire(c)
  \/ \E c \in TeardownConns : PermitDrop(c)
  \/ \E c \in TeardownConns : ResetRead(c)
  \/ ResetAdd
  \/ \E c \in TeardownConns : WriterWrite(c)
  \/ \E c \in TeardownConns : Disconnect(c)

SpecLock ==
  /\ Init /\ [][NextLock]_vars
  /\ WF_vars(ResetAdd)
  /\ \A c \in TeardownConns : WF_vars(Handler(c))

\* every kind of frame: bob and alice, a public, a private and an unknown
\* room; JoinRoom, LeaveRoom, SendMessage, Ping, signaling, text that does
\* not decode and binary frames
NextFrames ==
  \/ Step(InputConns, SendRooms, {"hi"}, {"none"}, MaxFrames)
  \/ \E c \in InputConns : Budget(MaxFrames) /\ Ping(c, None)
  \/ \E c \in InputConns, to \in RelayTargets :
       Budget(MaxFrames) /\ WebRtc(c, "webrtc_offer", "secret", to, "sdp")
  \/ \E c \in InputConns : Budget(MaxFrames) /\ UndecodableFrame(c, MAX_MESSAGE_SIZE)
  \/ \E c \in InputConns : Budget(MaxFrames) /\ BinaryFrame(c)

SpecFrames == Init /\ [][NextFrames]_vars

\* one room under its two designators: bob and alice join it and send to it
\* by its name and by its id
Designators == {"general", "id-general"}

NextDesignator == Step(InputConns, Designators, {"hi"}, {"none"}, MaxFrames)

SpecDesignator == Init /\ [][NextDesignator]_vars

\* a client that joins a room it is not in: bob and alice, one connection
\* each, join general, leave it and send to it
FreshJoin(c, room) ==
  /\ room \notin joined[c]
  /\ JoinRoom(c, room)

NextFresh ==
  \/ \E c \in OrderConns : Upgrade(c, "valid")
  \/ \E c \in OrderConns : Budget(MaxFrames + 1) /\ FreshJoin(c, "general")
  \/ \E c \in OrderConns : JoinAck(c)
  \/ \E c \in OrderConns : Budget(MaxFrames + 1) /\ LeaveRoom(c, "general")
  \/ \E c \in OrderConns :
       Budget(MaxFrames + 1) /\ SendMessage(c, "general", "hi", "none")
  \/ \E c \in OrderConns : PersistOk(c)
  \/ \E c \in OrderConns : PersistFail(c)
  \/ \E c \in OrderConns : IndexOk(c)
  \/ \E c \in OrderConns : IndexFail(c)
  \/ \E c \in OrderConns : BroadcastBegin(c)
  \/ \E c \in OrderConns : BroadcastNext(c)
  \/ \E c \in OrderConns : WriterWrite(c)
  \/ \E c \in OrderConns : WriterFail(c)
  \/ \E c \in OrderConns : WriterLagged(c)
  \/ \E c \in OrderConns : Disconnect(c)

SpecFresh == Init /\ [][NextFresh]_vars

(***************************************************************************)
(* Properties                                                              *)
(***************************************************************************)
Range(q) == {q[i] : i \in 1 .. Len(q)}

Live(u) == {c \in AllConns : st[c] = "live" /\ ConnUser(c) = u}

\* C1: the registry holds (room, identity) if and only if the identity has a
\* live connection that processed JoinRoom for the room and has not since
\* sent LeaveRoom for it or disconnected.
C1_Claim ==
  \A room \in AllRooms, u \in Users :
    (room \in DOMAIN registry /\ u \in DOMAIN registry[room])
      <=> (\E c \in Live(u) : room \in joined[c])

\* C2: no identity is referenced by more than 5 registry rows.
C2_Claim ==
  \A u \in Users : Cardinality(UserRooms(registry, u)) <= MAX_CONNECTIONS_PER_USER

\* C3: an identity never has more than 5 simultaneously live Connection
\* Actors: of 6 upgrades that are live at once the 6th is refused.
C3_Claim ==
  \A u \in Users : Cardinality(Live(u)) <= MAX_CONNECTIONS_PER_USER

\* C4: every room key of the registry maps to a non-empty inner map.
C4_NoEmptyRoom ==
  \A room \in DOMAIN registry : DOMAIN registry[room] # {}

\* a connection joined a room (its RoomJoined is still queued), then left it,
\* and the room is no longer a key
C4_Witness ==
  \E c \in AllConns :
    /\ pc[c] = "bcast_wait"
    /\ cur[c].frame.type = "user_left"
    /\ RoomJoined(cur[c].room, ConnUser(c)) \in Range(queue[c])
    /\ cur[c].room \notin DOMAIN registry

\* number of sends of the broadcast of message id to connection c
SendsTo(id, c) == Cardinality({i \in 1 .. Len(log[id].sends) : log[id].sends[i][1] = c})

\* number of Message frames with this id in a queue
Copies(q, id) ==
  Cardinality({i \in 1 .. Len(q) : q[i].type = "message" /\ q[i].id = id})

\* C5: the broadcast of a persisted message sends its Message frame exactly
\* once to every Client that is in the room at broadcast time (the send is
\* enqueued, or fails and is counted), to nobody else, and no connection
\* ever holds two Message frames with the same id.
C5_ExactlyOnce ==
  \A id \in 1 .. Len(log) :
    /\ \A c \in AllConns : SendsTo(id, c) <= 1 /\ Copies(queue[c], id) <= 1
    /\ \A c \in AllConns : SendsTo(id, c) = 1 => c \in log[id].rcpts
    /\ log[id].done => \A c \in log[id].rcpts : SendsTo(id, c) = 1

\* a finished broadcast that reached two clients
C5_Witness ==
  \E id \in 1 .. Len(log) :
    /\ log[id].done
    /\ Cardinality(log[id].rcpts) = 2
    /\ \A i \in 1 .. Len(log[id].sends) : log[id].sends[i][2]

\* position of the Message frame with this id in a queue (0: absent)
Pos(q, id) ==
  IF \E i \in 1 .. Len(q) : q[i].type = "message" /\ q[i].id = id
    THEN CHOOSE i \in 1 .. Len(q) : q[i].type = "message" /\ q[i].id = id
    ELSE 0

\* C6: two recipients that both hold two Message frames of one room hold
\* them in the same relative order.
C6_Claim ==
  \A c, d \in AllConns : \A i, j \in 1 .. Len(db) :
    ( /\ Pos(queue[c], i) > 0 /\ Pos(queue[c], j) > 0
      /\ Pos(queue[d], i) > 0 /\ Pos(queue[d], j) > 0
      /\ queue[c][Pos(queue[c], i)].room = queue[c][Pos(queue[c], j)].room )
    => (Pos(queue[c], i) < Pos(queue[c], j) <=> Pos(queue[d], i) < Pos(queue[d], j))

\* the step is a send of the broadcast loop of connection d
BroadcastStep(d) ==
  /\ pc[d] \in {"bcast_wait", "bcast"}
  /\ <<pc[d], cur[d]>> # <<pc'[d], cur'[d]>>

\* the connections that send is addressed to
Target(d) ==
  LET rs == IF pc[d] = "bcast" THEN cur[d].todo
            ELSE Recipients(registry, cur[d].room, cur[d].excl)
  IN  IF rs = << >> THEN {} ELSE {Head(rs)}

\* C7: when a broadcast reaches a recipient whose queue is full, the new
\* frame is dropped for that recipient and the send is counted as failed:
\* the frames already queued stay in the queue, to be written in order by
\* its writer, which was not made to stop.
C7_Claim ==
  [][\A d \in AllConns : \A c \in Target(d) :
       (BroadcastStep(d) /\ wr[c] = "run" /\ Len(queue[c]) = QueueCap)
         => /\ queue'[c] = queue[c]
            /\ ~lagged'[c]
            /\ (cur[d].frame.type = "message"
                  => log'[cur[d].frame.id].sends[Len(log'[cur[d].frame.id].sends)]
                       = <<c, FALSE>>)]_vars

\* the row a Message frame stands for
RowOf(f) ==
  [id |-> f.id, room_id |-> ResolveRoom(f.room).id, user_id |-> f.user,
   content |-> f.content, message_type |-> f.kind]

\* C8: every Message frame in an outbound queue, and every Message frame a
\* broadcast is about to send, has its row in persistence, with the same id,
\* room, author, content and kind.
C8_PersistedFirst ==
  /\ \A c \in AllConns : \A f \in Range(queue[c]) :
       f.type = "message" => f.id \in 1 .. Len(db) /\ db[f.id] = RowOf(f)
  /\ \A c \in AllConns :
       (pc[c] \in {"bcast_wait", "bcast"} /\ cur[c].frame.type = "message")
         => cur[c].frame.id \in 1 .. Len(db) /\ db[cur[c].frame.id] = RowOf(cur[c].frame)

\* a queued Message frame of kind image
C8_Witness ==
  \E c \in AllConns : \E f \in Range(queue[c]) :
    f.type = "message" /\ f.kind = "image" /\ f.user # ConnUser(c)

\* C9: the step in which the persistence write of a SendMessage fails ends
\* the dispatch with an Error frame sent on the sender's channel (enqueued
\* when the channel has its receiver) and nothing else: no frame to another
\* client, no row, no search-index call, no broadcast, the registry unchanged.
C9_PersistFailure ==
  [][\A c \in AllConns :
       (pc[c] = "persist" /\ pc'[c] # "persist" /\ db' = db)
         => /\ pc'[c] = "idle" /\ cur'[c] = NoCur
            /\ registry' = registry /\ indexed' = indexed /\ log' = log
            /\ \A d \in AllConns \ {c} : queue'[d] = queue[d]
            /\ queue'[c] = IF SendOk(c)
                             THEN Pushed(queue[c], ErrorFrame("persistence error", 1002))
                             ELSE queue[c]]_vars

\* the sender holds the Error frame of a failed persistence write
C9_Witness ==
  \E c \in AllConns :
    /\ ErrorFrame("persistence error", 1002) \in Range(queue[c])
    /\ db = << >> /\ indexed = {} /\ log = << >>

\* the frame a step pushed on a queue, NoFrame when it pushed none
PushedOn(c) ==
  IF /\ queue'[c] # queue[c] /\ queue'[c] # << >>
     /\ (queue[c] = << >> \/ queue'[c] # Tail(queue[c]))
    THEN queue'[c][Len(queue'[c])]
    ELSE NoFrame

\* C10: when the search-index add fails the handler goes on to the broadcast
\* with the row in place and sends no Error frame to the sender; the Message
\* frame is then sent to every client in the room.
C10_IndexFailure ==
  /\ [][\A c \in AllConns :
          /\ (pc[c] = "index" /\ pc'[c] # "index")
               => /\ pc'[c] = "bcast_wait" /\ cur'[c] = cur[c]
                  /\ db' = db /\ queue' = queue /\ registry' = registry
          /\ (pc[c] \in {"index", "bcast_wait", "bcast"})
               => PushedOn(c).type # "error"]_vars
  /\ [](\A id \in 1 .. Len(log) :
          (log[id].done /\ id \notin indexed)
            => /\ id \in 1 .. Len(db)
               /\ \A c \in log[id].rcpts : SendsTo(id, c) = 1)

\* a message that is not indexed was broadcast to two clients
C10_Witness ==
  \E id \in 1 .. Len(log) :
    /\ log[id].done /\ id \notin indexed
    /\ Cardinality(log[id].rcpts) = 2
    /\ \A c \in log[id].rcpts : MessageFrame(id, log[id].room, db[id].user_id,
                                              db[id].content, db[id].message_type)
                                   \in Range(queue[c])

\* inbound frames of a connection that passed the rate limiter since the
\* last replenisher tick
Window(c) == message_count[c] - ticked[c]

\* C11: between two consecutive replenisher ticks at most 10 inbound text
\* frames of one connection pass the rate limiter and are counted and
\* dispatched; the 11th is answered RateLimited and dropped.
C11_Claim ==
  \A c \in AllConns : Window(c) <= RATE_LIMIT_MESSAGES

\* the step is a replenisher tick
TickStep == ticked' # ticked

C13_SizeCap ==
  [][\A c \in AllConns : \A len \in FrameLens :
       UndecodableFrame(c, len)
         => IF len > MAX_MESSAGE_SIZE
              THEN /\ queue'[c] = IF SendOk(c)
                                    THEN Pushed(queue[c], ErrorFrame("Message too large", 1009))
                                    ELSE queue[c]
                   /\ \A d \in AllConns \ {c} : queue'[d] = queue[d]
                   /\ permits' = permits /\ message_count' = message_count
                   /\ pc' = pc /\ cur' = cur
                   /\ registry' = registry /\ db' = db /\ joined' = joined
              ELSE /\ PushedOn(c).code # 1009
                   /\ message_count'[c] = message_count[c] + 1]_vars

\* a connection that joined a room holds the Error 1009 of an oversized
\* frame, its only frame counted being the JoinRoom
C13_Witness ==
  \E c \in AllConns :
    /\ ErrorFrame("Message too large", 1009) \in Range(queue[c])
    /\ message_count[c] = 1 /\ nframes = 2
    /\ c \in RegistryConns(registry)

\* C14: a dispatched Ping{t} sends exactly one Pong{t} on the sender's own
\* channel (enqueued when the channel has its receiver), pushes nothing on
\* another connection's queue and leaves the registry unchanged.
C14_PingPong ==
  [][\A c \in AllConns : \A t \in Timestamps :
       Ping(c, t)
         => /\ queue'[c] = IF SendOk(c) THEN Pushed(queue[c], Pong(t)) ELSE queue[c]
            /\ \A d \in AllConns \ {c} : queue'[d] = queue[d]
            /\ registry' = registry]_vars

\* of two connections in one room, one holds the Pong of its Ping and the
\* other holds no Pong
C14_Witness ==
  \E c, d \in AllConns :
    /\ c # d
    /\ \E room \in DOMAIN registry : {c, d} \subseteq RoomClients(registry, room)
    /\ Pong(7) \in Range(queue[c])
    /\ \A f \in Range(queue[d]) : f.type # "pong"

\* C15: when the heartbeat of a connection has detected a timeout and ended,
\* the connection is eventually torn down without the peer doing anything:
\* cleanup has run and its tasks are stopped.
C15_Claim ==
  \A c \in AllConns :
    (hb[c] = "timeout" /\ st[c] = "live")
      ~> (st[c] = "closed" /\ ConnUser(c) \notin UNION {DOMAIN registry[r] : r \in DOMAIN registry})

\* C16: when the outbound writer of a connection has ended on a failed or
\* timed-out write, the connection is eventually torn down without the peer
\* doing anything, so that its identity is in no room of the registry.
C16_Claim ==
  \A c \in AllConns :
    (wr[c] = "fail" /\ st[c] = "live")
      ~> (st[c] = "closed" /\ RoomClients(registry, "general") \cap {c} = {})

\* C17: after a panic in the dispatcher the identity's rows are removed from
\* the registry and the heartbeat and the writer of the connection are
\* stopped.
C17_Claim ==
  \A c \in AllConns :
    st[c] = "panicked"
      => /\ UserRooms(registry, ConnUser(c)) = {}
         /\ wr[c] # "run"
         /\ hb[c] # "run"

\* the identities that appear in some room of the registry
Users_in(reg) == UNION {DOMAIN reg[r] : r \in DOMAIN reg}

\* C18: when the inbound loop of a connection ends, cleanup leaves the
\* identity in no room of the registry, removes the rooms that became empty,
\* keeps every other identity's rows, and enqueues no frame (no UserLeft) on
\* any other connection's queue.
C18_SilentCleanup ==
  [][\A c \in AllConns :
       Disconnect(c)
         => /\ ConnUser(c) \notin Users_in(registry')
            /\ \A r \in DOMAIN registry' : DOMAIN registry'[r] # {}
            /\ \A r \in DOMAIN registry :
                 \A u \in DOMAIN registry[r] \ {ConnUser(c)} :
                   r \in DOMAIN registry' /\ u \in DOMAIN registry'[r]
                     /\ registry'[r][u] = registry[r][u]
            /\ \A d \in AllConns \ {c} : queue'[d] = queue[d]]_vars

\* a connection that joined a room in which another identity stays has been
\* closed: the other occupant holds its UserJoined and no UserLeft, and a
\* room it occupied alone is gone
C18_Witness ==
  \E c, d \in AllConns :
    /\ st[c] = "closed" /\ st[d] = "live"
    /\ "general" \in DOMAIN registry
    /\ DOMAIN registry["general"] = {ConnUser(d)}
    /\ "secret" \notin DOMAIN registry
    /\ UserJoined("general", ConnUser(c)) \in Range(queue[d])
    /\ \A f \in Range(queue[d]) : f.type # "user_left"

\* C19: an accepted JoinRoom{R} stores the Client under registry[R][identity],
\* then sends RoomJoined on the sender's channel only, then goes on to
\* broadcast UserJoined to every other occupant of R and not to the sender.
C19_Claim ==
  [][\A c \in AllConns :
       /\ \A room \in InputRooms :
            (JoinRoom(c, room) /\ pc'[c] = "ack")
              => /\ room \in DOMAIN registry'
                 /\ ConnUser(c) \in DOMAIN registry'[room]
                 /\ registry'[room][ConnUser(c)] = c
       /\ JoinAck(c)
            => /\ SendOk(c)
                    => queue'[c] = Pushed(queue[c], RoomJoined(cur[c].room, ConnUser(c)))
               /\ \A d \in AllConns \ {c} : queue'[d] = queue[d]
               /\ pc'[c] = "bcast_wait"
               /\ cur'[c].frame = UserJoined(cur[c].room, ConnUser(c))
       /\ (BroadcastStep(c) /\ cur[c].frame.type = "user_joined")
            => /\ queue'[c] = queue[c]
               /\ \A t \in Target(c) :
                    /\ t \in RoomClients(registry, cur[c].room)
                    /\ SendOk(t) => queue'[t] = Pushed(queue[t], cur[c].frame)
               /\ (pc[c] = "bcast_wait")
                    => {Recipients(registry, cur[c].room, cur[c].excl)[i] :
                          i \in 1 .. Len(Recipients(registry, cur[c].room, cur[c].excl))}
                         = {d \in RoomClients(registry, cur[c].room) :
                              ConnUser(d) # ConnUser(c)}]_vars

\* the request is one the dispatcher must reject: the name is empty or longer
\* than 100 characters, no room has it, or the room is private and the
\* identity is not one of its members
MustReject(room, user) ==
  \/ RoomLen(room) = 0
  \/ RoomLen(room) > 100
  \/ \A r \in RoomsDb : r.id # room /\ r.name # room
  \/ \E r \in RoomsDb : (r.id = room \/ r.name = room) /\ ~r.is_public /\ user \notin r.members

\* the messages of the Error that answers a rejected JoinRoom
JoinErrors ==
  {"Invalid room name", "Room not found", "You are not a member of this private room"}

\* C20: a rejected JoinRoom leaves the registry unchanged, ends the dispatch
\* with no RoomJoined and no UserJoined to anyone, and sends only an Error
\* frame (code 1002) on the sender's channel (enqueued when the channel has
\* its receiver).
C20_RejectedJoin ==
  [][\A c \in AllConns : \A room \in InputRooms :
       (JoinRoom(c, room) /\ MustReject(room, ConnUser(c)))
         => /\ registry' = registry /\ joined' = joined
            /\ pc'[c] = "idle" /\ cur'[c] = NoCur
            /\ \A d \in AllConns \ {c} : queue'[d] = queue[d]
            /\ IF SendOk(c)
                 THEN \E m \in JoinErrors :
                        queue'[c] = Pushed(queue[c], ErrorFrame(m, 1002))
                 ELSE queue'[c] = queue[c]]_vars

\* alice holds the Error of her JoinRoom for the private room bob is in; bob
\* holds no UserJoined and is the only occupant
C20_Witness ==
  \E c, d \in AllConns :
    /\ ErrorFrame("You are not a member of this private room", 1002) \in Range(queue[c])
    /\ "secret" \in DOMAIN registry
    /\ DOMAIN registry["secret"] = {ConnUser(d)}
    /\ registry["secret"][ConnUser(d)] = d
    /\ \A f \in Range(queue[d]) : f.type # "user_joined"

\* the connections a sequence of recipients holds
Conns_of(rs) == {rs[i] : i \in 1 .. Len(rs)}

\* C21: the broadcast of a persisted SendMessage for room R sends the same
\* Message frame to every client in registry[R]: to the sending connection
\* too when it has joined R, and not to it when it has not joined R, in which
\* case the message is persisted and broadcast to the occupants all the same.
C21_Claim ==
  [][\A c \in AllConns :
       (BroadcastStep(c) /\ cur[c].frame.type = "message")
         => /\ cur[c].frame.id \in 1 .. Len(db)
            /\ \A t \in Target(c) :
                 SendOk(t) => queue'[t] = Pushed(queue[t], cur[c].frame)
            /\ pc'[c] = "bcast" => cur'[c].frame = cur[c].frame
            /\ pc[c] = "bcast_wait"
                 => LET rset == Conns_of(Recipients(registry, cur[c].room, cur[c].excl))
                    IN  /\ rset = RoomClients(registry, cur[c].room)
                        /\ cur[c].room \in joined[c] <=> c \in rset]_vars

\* the SendMessage is one the dispatcher must reject: the content is empty
\* or longer than 4000 bytes, no room has the designator, or the room is
\* private and the sender is not one of its members
MustRejectSend(room, content, user) ==
  \/ ContentLen(content) = 0
  \/ ContentLen(content) > 4000
  \/ \A r \in RoomsDb : r.id # room /\ r.name # room
  \/ \E r \in RoomsDb : (r.id = room \/ r.name = room) /\ ~r.is_public /\ user \notin r.members

\* the messages of the Error that answers a rejected SendMessage
SendErrors ==
  {"Message content cannot be empty", "Message content too long",
   "Room not found", "You are not a member of this private room"}

\* C22: a SendMessage rejected by validation ends the dispatch before the
\* persistence write: no row, no search-index call, no broadcast, the
\* registry unchanged, only an Error on the sender's channel; any other
\* SendMessage, in particular one of exactly 4000 bytes, goes on to the
\* persistence write.
C22_RejectedSend ==
  [][\A c \in AllConns : \A room \in SendRooms : \A content \in SendContents :
       SendMessage(c, room, content, "none")
         => IF MustRejectSend(room, content, ConnUser(c))
              THEN /\ registry' = registry /\ db' = db /\ indexed' = indexed
                   /\ log' = log
                   /\ pc'[c] = "idle" /\ cur'[c] = NoCur
                   /\ \A d \in AllConns \ {c} : queue'[d] = queue[d]
                   /\ IF SendOk(c)
                        THEN \E m \in SendErrors :
                               queue'[c] = Pushed(queue[c], ErrorFrame(m, 1002))
                        ELSE queue'[c] = queue[c]
              ELSE /\ pc'[c] = "persist"
                   /\ cur'[c].frame.content = content
                   /\ queue' = queue /\ registry' = registry]_vars

\* a message of exactly 4000 bytes has its row, and a connection holds the
\* Error of a longer one, which has no row
C22_Witness ==
  /\ Len(db) = 1 /\ db[1].content = "max"
  /\ \E c \in AllConns :
       ErrorFrame("Message content too long", 1002) \in Range(queue[c])

\* C23: LeaveRoom{R} removes the identity's Client from registry[R], removes
\* the key R when the inner map has become empty, leaves the entries of every
\* other room as they were, and then broadcasts UserLeft{R, identity} to
\* exactly the occupants that remain in R, never to the leaver.
C23_LeaveRoom ==
  [][\A c \in AllConns :
       /\ \A room \in Rooms :
            LeaveRoom(c, room)
              => LET user == ConnUser(c)
                     rest == IF room \in DOMAIN registry
                               THEN DOMAIN registry[room] \ {user} ELSE {}
                 IN  /\ room \in DOMAIN registry' <=> rest # {}
                     /\ room \in DOMAIN registry'
                          => /\ DOMAIN registry'[room] = rest
                             /\ \A u \in rest : registry'[room][u] = registry[room][u]
                     /\ DOMAIN registry' \ {room} = DOMAIN registry \ {room}
                     /\ \A r \in DOMAIN registry \ {room} : registry'[r] = registry[r]
                     /\ queue' = queue
                     /\ pc'[c] = "bcast_wait"
                     /\ cur'[c].frame = UserLeft(room, user)
       /\ (BroadcastStep(c) /\ cur[c].frame.type = "user_left")
            => /\ registry' = registry
               /\ \A t \in Target(c) :
                    /\ t \in RoomClients(registry, cur[c].room)
                    /\ ConnUser(t) # ConnUser(c)
                    /\ SendOk(t) => queue'[t] = Pushed(queue[t], cur[c].frame)
               /\ \A d \in AllConns \ Target(c) : queue'[d] = queue[d]
               /\ pc'[c] = "bcast" => cur'[c].frame = cur[c].frame
               /\ pc[c] = "bcast_wait"
                    => Conns_of(Recipients(registry, cur[c].room, cur[c].excl))
                         = {d \in RoomClients(registry, cur[c].room) :
                              ConnUser(d) # ConnUser(c)}]_vars

\* bob has joined and left general, where alice remains and holds his
\* UserJoined and his UserLeft; bob holds no UserLeft
C23_Witness ==
  /\ "general" \in DOMAIN registry
  /\ DOMAIN registry["general"] = {"alice"}
  /\ "general" \notin joined[0]
  /\ \E d \in AllConns :
       /\ ConnUser(d) = "alice"
       /\ queue[d] = <<UserJoined("general", "bob"), UserLeft("general", "bob")>>
  /\ \A f \in Range(queue[0]) : f.type # "user_left"

\* C24: a signaling frame of connection c to another identity that has a
\* Client in the registry puts exactly one frame on one queue of that identity:
\* the same variant, room and payload, with to_user_id rewritten to the
\* sender's identity; nothing is put on the sender's queue, nothing is
\* persisted or indexed, and the registry is unchanged.
C24_Relay ==
  [][\A c \in AllConns : \A v \in Variants : \A to \in RelayTargets :
       ( /\ WebRtc(c, v, "general", to, "sdp")
         /\ ParseUuid(to) # ConnUser(c)
         /\ Holders(registry, ParseUuid(to)) # {} )
         => /\ \E d \in RegistryConns(registry) :
                 /\ ConnUser(d) = ParseUuid(to)
                 /\ queue'[d] = Pushed(queue[d],
                                  Signal(v, "general", UuidToString(ConnUser(c)), "sdp"))
                 /\ \A e \in AllConns \ {d} : queue'[e] = queue[e]
            /\ queue'[c] = queue[c]
            /\ db' = db /\ indexed' = indexed /\ log' = log
            /\ registry' = registry]_vars

\* C25: a signaling frame whose to_user_id is not a 128-bit id, or names an
\* identity with no Client in any room of the registry, is answered by an
\* Error on the sender's channel ("Target user not found or offline" in the
\* second case); no frame is put on any other queue and the registry is
\* unchanged.
C25_NoTarget ==
  [][\A c \in AllConns : \A v \in Variants : \A to \in RelayTargets :
       ( /\ WebRtc(c, v, "general", to, "sdp")
         /\ Holders(registry, ParseUuid(to)) = {} )
         => LET m == IF ParseUuid(to) = NoUser
                       THEN "Invalid target user ID"
                       ELSE "Target user not found or offline"
            IN  /\ SendOk(c)
                     => \E code \in {None, 1002} :
                          queue'[c] = Pushed(queue[c], ErrorFrame(m, code))
                /\ \A d \in AllConns \ {c} : queue'[d] = queue[d]
                /\ db' = db /\ indexed' = indexed /\ log' = log
                /\ registry' = registry]_vars

\* alice holds the two Errors, for a string that is not an id and for an
\* identity that is not connected, while bob is in a room and holds nothing
\* but his RoomJoined
C25_Witness ==
  /\ DOMAIN registry = {"general"}
  /\ DOMAIN registry["general"] = {"bob"}
  /\ wr[0] = "run"
  /\ \A f \in Range(queue[0]) : f.type = "room_joined"
  /\ \E c \in AllConns :
       /\ ConnUser(c) = "alice"
       /\ \E code \in {None, 1002} :
            queue[c] = <<ErrorFrame("Invalid target user ID", code),
                         ErrorFrame("Target user not found or offline", code)>>

\* C26: an upgrade with a missing or an invalid credential produces no
\* Connection Actor: the connection is closed at once, with no writer and no
\* heartbeat, it puts no frame on any queue and leaves the registry as it
\* was; and from then on no frame of it is counted or dispatched, it joins
\* no room and it stays closed.
C26_NoActor ==
  [][\A c \in AllConns :
       /\ \A token \in Tokens \ {"valid"} :
            Upgrade(c, token)
              => /\ st'[c] = "unauth"
                 /\ wr'[c] = "none" /\ hb'[c] = "none"
                 /\ queue' = queue
                 /\ registry' = registry
                 /\ nframes' = nframes
       /\ st[c] = "unauth"
            => /\ st'[c] = "unauth"
               /\ wr'[c] = "none" /\ hb'[c] = "none"
               /\ pc'[c] = "idle" /\ joined'[c] = {}
               /\ message_count'[c] = 0
               /\ queue'[c] = << >>
               /\ c \notin RegistryConns(registry')]_vars

\* alice's connection 1 was closed for its credential while bob is in
\* general and alice's connection 2, with a valid credential, has joined too
C26_Witness ==
  /\ st[1] = "unauth"
  /\ st[0] = "live" /\ st[2] = "live"
  /\ "general" \in DOMAIN registry
  /\ registry["general"] = [alice |-> 2, bob |-> 0]

\* the messages of the Errors for authorization failures
AuthzErrors ==
  {"Room not found", "You are not a member of this private room",
   "Target user not found or offline"}

\* C27: an Error sent for an authorization failure ("Room not found", "You
\* are not a member of this private room", "Target user not found or
\* offline") carries no code, and the Error for an invalid room name carries
\* code 1002.
C27_Codes ==
  \A c \in AllConns : \A f \in Range(queue[c]) :
    f.type = "error"
      => /\ f.message \in AuthzErrors => f.code = None
         /\ f.message = "Invalid room name" => f.code = 1002

\* the answer has one entry for each identity with a row in the registry and
\* none for any other, and the rooms of an entry are the keys under which
\* the identity has a row, each once
SnapshotOf(res, reg) ==
  /\ \A u \in Users :
       Cardinality({i \in 1 .. Len(res) : res[i].user_id = u})
         = IF Holders(reg, u) # {} THEN 1 ELSE 0
  /\ \A i \in 1 .. Len(res) :
       /\ res[i].user_id \in Users
       /\ Range(res[i].rooms) = Holders(reg, res[i].user_id)
       /\ Len(res[i].rooms) = Cardinality(Holders(reg, res[i].user_id))

\* C28: in every state of the registry, every answer the online-users
\* snapshot can give has exactly one entry for each identity that has a row,
\* with exactly the room keys of its rows, each once, and no entry for an
\* identity without a row; and taking the snapshot leaves the registry as it
\* was.
C28_Snapshot ==
  /\ [](\A res \in get_online_users_info(registry) : SnapshotOf(res, registry))
  /\ [][get_online_users
          => /\ registry' = registry
             /\ SnapshotOf(online', registry)]_vars

\* a snapshot taken while bob is in two rooms and alice in one of them
C28_Witness ==
  /\ Len(online) = 2
  /\ \E i, j \in 1 .. Len(online) :
       /\ online[i].user_id = "bob" /\ Len(online[i].rooms) = 2
       /\ online[j].user_id = "alice" /\ online[j].rooms = <<"general">>
  /\ SnapshotOf(online, registry)

\* C29: a connection that has joined a public room and whose last inbound
\* frame is 65 s old or older has been sent Error{1001, "Connection timed
\* out"} by its heartbeat, which has ended, once the ticks due at that
\* moment have been taken, whatever the offset between the frame and the
\* ticks.
C29_Timeout ==
  \A c \in AllConns :
    ( /\ st[c] = "live"
      /\ "general" \in joined[c]
      /\ clock - last_activity[c] >= 65
      /\ hb[c] = "run" => hb_next[c] > clock )
      => hb[c] = "timeout"

\* C30: an authenticated upgrade is refused exactly when the identity has a
\* Client in at least 5 rooms of the registry at that moment; otherwise the
\* connection gets its actor, with its writer and its heartbeat; the check
\* leaves the registry as it was.
C30_Admission ==
  [][\A c \in AllConns :
       Upgrade(c, "valid")
         => LET count == Cardinality({r \in DOMAIN registry :
                                       ConnUser(c) \in DOMAIN registry[r]})
            IN  /\ st'[c] = "refused" <=> count >= 5
                /\ st'[c] = "live" <=> count < 5
                /\ st'[c] = "live" => wr'[c] = "run" /\ hb'[c] = "run"
                /\ st'[c] = "refused" => wr'[c] = "none" /\ hb'[c] = "none"
                /\ registry' = registry
                /\ queue' = queue]_vars

\* bob's second connection was refused while his first holds exactly five
\* rooms
C30_Witness ==
  /\ st[0] = "live"
  /\ st[MAX_CONNECTIONS_PER_USER + 2] = "refused"
  /\ Cardinality({r \in DOMAIN registry : "bob" \in DOMAIN registry[r]}) = 5

\* C31: a JoinRoom{R} of a connection whose Client is already stored in
\* registry[R], next to another occupant, leaves the registry as it was, with one entry for the identity
\* in R, and the handler does not go on to broadcast a second UserJoined to
\* the other occupants (a second RoomJoined to the sender is allowed).
C31_DuplicateJoin ==
  [][\A c \in AllConns : \A room \in Rooms :
       ( /\ JoinRoom(c, room)
         /\ c \in RoomClients(registry, room)
         /\ \E d \in RoomClients(registry, room) : ConnUser(d) # ConnUser(c) )
         => /\ registry' = registry
            /\ \A d \in AllConns \ {c} : queue'[d] = queue[d]
            /\ ~ ( /\ pc'[c] \in {"ack", "bcast_wait"}
                   /\ cur'[c].frame = UserJoined(room, ConnUser(c)) )]_vars

\* C32: in every reachable state the permit pool of every connection holds
\* between 0 and 10 permits, whatever the interleaving of the replenisher's
\* read-then-add with the acquisition and the release of a permit by the
\* inbound loop.
C32_PoolBound ==
  \A c \in AllConns : permits[c] \in 0 .. 10

\* C33: the writer of a connection writes the frames in the order in which
\* they were enqueued, whoever enqueued them (the dispatcher, the broadcast
\* of another connection, the heartbeat): a write takes the oldest frame of
\* the queue and leaves the others in their order, and every other step
\* leaves the queue as it is, adds one frame behind the others (at capacity
\* the oldest is dropped) or drops all of them; no frame is moved or written
\* twice.
C33_WriterOrder ==
  [][\A c \in AllConns :
       /\ WriterWrite(c) => queue'[c] = Tail(queue[c])
       /\ \/ queue'[c] = queue[c]
          \/ queue'[c] = << >>
          \/ queue[c] # << >> /\ queue'[c] = Tail(queue[c]) /\ WriterWrite(c)
          \/ /\ queue'[c] # << >>
             /\ queue'[c] = Pushed(queue[c], queue'[c][Len(queue'[c])])]_vars

\* alice's RoomJoined has been written, and her queue holds bob's UserJoined
\* and the heartbeat's Ping in the order in which they were enqueued
C33_Witness ==
  /\ st[1] = "live" /\ wr[1] = "run" /\ ~lagged[1]
  /\ "general" \in joined[1] /\ pc[1] = "idle"
  /\ queue[1] = <<UserJoined("general", "bob"), PingFrame(7)>>

\* C34: a text frame that does not decode and a binary frame are each
\* answered by an Error with code 1003 on the sender's channel; nothing goes
\* to another connection, the registry is unchanged, and the connection
\* stays open with its inbound loop ready for the next frame.
C34_Undecodable ==
  [][\A c \in AllConns :
       (UndecodableFrame(c, MAX_MESSAGE_SIZE) \/ BinaryFrame(c))
         => /\ SendOk(c)
                 => \E m \in {"Invalid JSON format", "Binary messages not supported"} :
                      queue'[c] = Pushed(queue[c], ErrorFrame(m, 1003))
            /\ \A d \in AllConns \ {c} : queue'[d] = queue[d]
            /\ registry' = registry /\ joined' = joined
            /\ st'[c] = "live" /\ pc'[c] = "idle"
            /\ wr'[c] = wr[c] /\ hb'[c] = hb[c]]_vars

\* a connection in a room holds the Errors of a text frame that did not
\* decode and of the binary frame it sent after it
C34_Witness ==
  \E c \in AllConns :
    /\ st[c] = "live" /\ c \in RegistryConns(registry)
    /\ queue[c] = <<ErrorFrame("Invalid JSON format", 1003),
                    ErrorFrame("Binary messages not supported", 1003)>>

\* a task is inside a read section of the registry lock (the write sections
\* are single steps)
LockHeld == ~NoReaders

\* C35: the registry lock is held only for sections that neither wait nor
\* take the lock again: a dispatcher that waits on persistence or on the
\* search index, or a writer that writes to a socket, is outside every
\* section; a broadcast, once inside, only sends and then releases; so every
\* section ends, the lock is free again and again, and a dispatcher that
\* asks for the lock gets it.
C35_Lock ==
  /\ LockHeld ~> NoReaders
  /\ \A c \in AllConns : (pc[c] = "bcast_wait") ~> (pc[c] # "bcast_wait")
  /\ [][\A c \in AllConns :
          /\ (pc[c] \in {"persist", "index"} /\ pc'[c] # pc[c])
               => (registry' = registry /\ pc'[c] # "bcast")
          /\ (pc[c] = "bcast" /\ <<pc'[c], cur'[c]>> # <<pc[c], cur[c]>>)
               => /\ pc'[c] \in {"bcast", "idle"}
                  /\ registry' = registry /\ db' = db /\ indexed' = indexed
                  /\ Len(cur'[c].todo) < Len(cur[c].todo) \/ pc'[c] = "idle"
          /\ WriterWrite(c) => (registry' = registry /\ pc' = pc)]_vars

\* bob's broadcast is inside its section, between two sends, while alice's
\* dispatcher asks for the lock
C35_Witness ==
  /\ pc[0] = "bcast" /\ cur[0].todo # << >>
  /\ pc[1] = "bcast_wait"

\* the identity may be in the room with this designator: a room has it as
\* its id or its name, and the room is public or the identity is a member
MayJoin(room, user) ==
  \E r \in RoomsDb :
    (r.id = room \/ r.name = room) /\ (r.is_public \/ user \in r.members)

\* C36: a Client is in the registry under key R only by a JoinRoom{R} of its
\* identity that was accepted, for a designator R of an existing room that is
\* public or has the identity as a member: every row of the registry is of
\* that kind, and a step that adds a row or replaces its Client is such a
\* JoinRoom; no other frame and no rejected frame adds a row.
C36_OnlyJoin ==
  /\ [](\A r \in DOMAIN registry : \A u \in DOMAIN registry[r] : MayJoin(r, u))
  /\ [][\A r \in DOMAIN registry' : \A u \in DOMAIN registry'[r] :
          ( \/ r \notin DOMAIN registry
            \/ u \notin DOMAIN registry[r]
            \/ registry'[r][u] # registry[r][u] )
            => \E c \in AllConns :
                 /\ ConnUser(c) = u
                 /\ JoinRoom(c, r)
                 /\ MayJoin(r, u)
                 /\ registry'[r][u] = c]_vars

\* bob is in the private room, alice is in the public room only and holds the
\* Error of her JoinRoom of the private room
C36_Witness ==
  /\ DOMAIN registry = {"general", "secret"}
  /\ DOMAIN registry["secret"] = {"bob"}
  /\ "alice" \in DOMAIN registry["general"]
  /\ ErrorFrame("You are not a member of this private room", 1002)
       \in Range(queue[registry["general"]["alice"]])

\* C37: when a Message is broadcast in R, every live connection that joined
\* R, was acknowledged with RoomJoined and has not itself left R since is
\* among the recipients, also when another connection of its identity has
\* joined R, left R or closed in the meantime.
C37_AllJoined ==
  [][\A c \in AllConns :
       ( /\ BroadcastStep(c)
         /\ pc[c] = "bcast_wait"
         /\ cur[c].frame.type = "message" )
         => \A d \in AllConns :
              ( /\ st[d] = "live" /\ wr[d] = "run"
                /\ cur[c].room \in joined[d]
                /\ ~(pc[d] = "ack" /\ cur[d].room = cur[c].room) )
                => d \in Conns_of(Recipients(registry, cur[c].room, cur[c].excl))]_vars

\* the two designators are of one room of the rooms table
SameRoom(r1, r2) ==
  \E r \in RoomsDb : {r1, r2} \subseteq {r.id, r.name}

\* C38: two clients that joined one room, one by its id and the other by its
\* name, are under a single key of the registry, and a Message sent to the
\* room under either designator goes to every client that joined the room
\* under any of them.
C38_OneRoom ==
  /\ [](\A r1, r2 \in DOMAIN registry :
          ( /\ SameRoom(r1, r2)
            /\ \E u1 \in DOMAIN registry[r1], u2 \in DOMAIN registry[r2] : u1 # u2 )
            => r1 = r2)
  /\ [][\A c \in AllConns :
          ( /\ BroadcastStep(c)
            /\ pc[c] = "bcast_wait"
            /\ cur[c].frame.type = "message" )
            => \A r \in DOMAIN registry :
                 SameRoom(r, cur[c].room)
                   => RoomClients(registry, r)
                        \subseteq Conns_of(Recipients(registry, cur[c].room, cur[c].excl))]_vars

\* C39: a LeaveRoom{R} of an identity that has no entry in registry[R] starts
\* no broadcast to the occupants of R, and a UserLeft{R, U} of an identity that
\* may not join R (R is private and U is not a member, or R does not exist) is
\* put on no queue.
C39_LeaveOnlyJoined ==
  [][\A c \in AllConns :
       /\ \A room \in Rooms :
            ( /\ LeaveRoom(c, room)
              /\ ~(room \in DOMAIN registry /\ ConnUser(c) \in DOMAIN registry[room]) )
              => ~( /\ pc'[c] = "bcast_wait"
                    /\ cur'[c].frame = UserLeft(room, ConnUser(c))
                    /\ Recipients(registry', room, ConnUser(c)) # << >> )
       /\ ( /\ BroadcastStep(c)
            /\ cur[c].frame.type = "user_left"
            /\ ~MayJoin(cur[c].room, ConnUser(c)) )
            => queue' = queue]_vars

\* C40: no UserJoined, UserLeft or Message frame for R is sent to a connection
\* whose JoinRoom{R} has put its Client in registry[R] and has not yet sent
\* its RoomJoined{R}: on the joiner's queue RoomJoined{R} comes before every
\* frame that the new entry brings.
C40_AckFirst ==
  [][\A d \in AllConns :
       ( /\ BroadcastStep(d)
         /\ cur[d].frame.type \in {"user_joined", "user_left", "message"} )
         => \A t \in Target(d) :
              ( /\ pc[t] = "ack"
                /\ cur[t].room = cur[d].room
                /\ SendOk(t) )
                => queue'[t] = queue[t]]_vars

====
